---- MODULE Spec2Model ----
(***************************************************************************)
(* Model of CAgentLib: the response parser (agent_parser.c), the JSON      *)
(* parser it relies on (agent_json.c) and the orchestrator loop            *)
(* (agent_orchestrator.c).                                                 *)
(*                                                                         *)
(* Byte buffers are TLA+ strings.  Offsets are 0-based, as in the C code;  *)
(* Sub(s, off, n) is the n bytes of s starting at offset off.  The empty   *)
(* string returned by At for an offset outside the buffer plays the role   *)
(* of the '\0' that peek() returns at the end of input.                    *)
(***************************************************************************)
EXTENDS Integers, Sequences, FiniteSets, TLC

(***************************************************************************)
(* Buffers and string views (agent_string.c)                               *)
(***************************************************************************)
\* A local variable: value is computed once and named in Body.
With(value, Body(_)) == Body(value)

Sub(s, off, n) == SubSeq(s, off + 1, off + n)

At(s, off) == IF off >= 0 /\ off < Len(s) THEN SubSeq(s, off + 1, off + 1) ELSE ""

From(s, off) == SubSeq(s, off + 1, Len(s))

\* isspace() in the C locale; '\v' has no TLA+ string notation and is not
\* part of any modelled input.
isspace(c) == c \in {" ", "\t", "\n", "\r", "\f"}

RECURSIVE agent_sv_trim_start(_)
agent_sv_trim_start(sv) ==
    IF Len(sv) > 0 /\ isspace(At(sv, 0)) THEN agent_sv_trim_start(From(sv, 1)) ELSE sv

RECURSIVE agent_sv_trim_end(_)
agent_sv_trim_end(sv) ==
    IF Len(sv) > 0 /\ isspace(At(sv, Len(sv) - 1))
    THEN agent_sv_trim_end(Sub(sv, 0, Len(sv) - 1))
    ELSE sv

agent_sv_trim(sv) == agent_sv_trim_end(agent_sv_trim_start(sv))

\* find_substr: offset of the first occurrence of needle, -1 for NULL.
RECURSIVE find_from(_, _, _)
find_from(haystack, needle, p) ==
    IF p + Len(needle) > Len(haystack) THEN -1
    ELSE IF Sub(haystack, p, Len(needle)) = needle THEN p
    ELSE find_from(haystack, needle, p + 1)

find_substr(haystack, needle) ==
    IF Len(needle) = 0 THEN 0
    ELSE IF Len(needle) > Len(haystack) THEN -1
    ELSE find_from(haystack, needle, 0)

(***************************************************************************)
(* Tag constants (agent_parser.c)                                          *)
(***************************************************************************)
TAG_TOOL_CALL_OPEN == "<tool_call>"
TAG_TOOL_CALL_CLOSE == "</tool_call>"
TAG_THINK_OPEN == "<think>"
TAG_THINK_CLOSE == "</think>"
TAG_THINKING_OPEN == "<thinking>"
TAG_THINKING_CLOSE == "</thinking>"

TAG_TOOL_CALL_OPEN_LEN == 11
TAG_TOOL_CALL_CLOSE_LEN == 12
TAG_THINK_OPEN_LEN == 7
TAG_THINK_CLOSE_LEN == 8
TAG_THINKING_OPEN_LEN == 10
TAG_THINKING_CLOSE_LEN == 11

(***************************************************************************)
(* JSON values and the recursive-descent parser (agent_json.c)             *)
(***************************************************************************)
NULL == [type |-> "NULL"]

agent_json_null == [type |-> "null"]
agent_json_bool(b) == [type |-> "bool", bool_value |-> b]
agent_json_int(i) == [type |-> "int", int_value |-> i]
\* A double is kept as the lexeme handed to strtod.
agent_json_double(lexeme) == [type |-> "double", double_value |-> lexeme]
agent_json_string_n(s) == [type |-> "string", string_value |-> s]
agent_json_array == [type |-> "array", items |-> <<>>]
agent_json_object == [type |-> "object", entries |-> <<>>]

agent_json_array_append(array, value) ==
    [array EXCEPT !.items = Append(@, value)]

RECURSIVE entry_index(_, _, _)
entry_index(entries, key, i) ==
    IF i > Len(entries) THEN 0
    ELSE IF entries[i].key = key THEN i
    ELSE entry_index(entries, key, i + 1)

\* Variant: a new entry is appended whether or not the key is present.
agent_json_object_set_n_append(object, key, value) ==
    [object EXCEPT !.entries = Append(@, [key |-> key, value |-> value])]

agent_json_object_set_n(object, key, value) ==
    LET i == entry_index(object.entries, key, 1) IN
    IF i > 0
    THEN [object EXCEPT !.entries[i].value = value]
    ELSE [object EXCEPT !.entries = Append(@, [key |-> key, value |-> value])]

\* agent_json_object_set with the argument checks of agent_json_object_set_n:
\* the object after the call and the error code returned.
agent_json_object_set(object, key, value) ==
    IF object = NULL \/ value = NULL
    THEN [object |-> object, err |-> "AGENT_ERROR_INVALID_ARGUMENT"]
    ELSE IF object.type # "object"
    THEN [object |-> object, err |-> "AGENT_ERROR_INVALID_ARGUMENT"]
    ELSE [object |-> agent_json_object_set_n(object, key, value), err |-> "AGENT_OK"]

agent_json_object_get(object, key) ==
    IF object.type # "object" THEN NULL
    ELSE LET i == entry_index(object.entries, key, 1) IN
         IF i = 0 THEN NULL ELSE object.entries[i].value

Digits == {"0", "1", "2", "3", "4", "5", "6", "7", "8", "9"}

DigitVal(c) ==
    CASE c = "0" -> 0 [] c = "1" -> 1 [] c = "2" -> 2 [] c = "3" -> 3
      [] c = "4" -> 4 [] c = "5" -> 5 [] c = "6" -> 6 [] c = "7" -> 7
      [] c = "8" -> 8 [] c = "9" -> 9
      [] c \in {"a", "A"} -> 10 [] c \in {"b", "B"} -> 11
      [] c \in {"c", "C"} -> 12 [] c \in {"d", "D"} -> 13
      [] c \in {"e", "E"} -> 14 [] c \in {"f", "F"} -> 15
      [] OTHER -> -1

\* Parser results: the value (NULL on failure), the position reached and
\* whether set_error was called.
PR(value, pos, error) == [value |-> value, pos |-> pos, error |-> error]

RECURSIVE skip_whitespace(_, _)
skip_whitespace(json, pos) ==
    IF pos < Len(json) /\ At(json, pos) \in {" ", "\t", "\n", "\r"}
    THEN skip_whitespace(json, pos + 1)
    ELSE pos

\* The scanning loop of parse_string: the offset of the closing quote, or
\* -1 when the input ends right after a backslash, or Len(json) when the
\* input ends inside the string.
RECURSIVE scan_string(_, _)
scan_string(json, pos) ==
    IF pos >= Len(json) \/ At(json, pos) = "\"" THEN pos
    ELSE IF At(json, pos) = "\\"
         THEN IF pos + 1 >= Len(json) THEN -1 ELSE scan_string(json, pos + 2)
         ELSE scan_string(json, pos + 1)

\* Characters for the code points a \uXXXX escape can produce.  AsciiLow
\* holds code points 32..95 and AsciiHigh 97..126.  ControlBytes holds the
\* bytes 0x00..0x1F in order: tab, line feed, form feed and carriage return
\* as themselves, every other byte c as the character U+0080 + c (U+00A0
\* for c = 5), since a TLA+ string cannot hold the byte itself.  Any other
\* byte with no TLA+ string notation is written as "^" plus a letter naming
\* its class, which keeps the number of bytes produced by each class
\* distinct.
ControlBytes ==
    " \t\n\f\r"

control_byte(cp) == Sub(ControlBytes, cp, 1)

AsciiLow ==
    " !\"#$%&'()*+,-./0123456789:;<=>?@ABCDEFGHIJKLMNOPQRSTUVWXYZ[\\]^_"

AsciiHigh == "abcdefghijklmnopqrstuvwxyz{|}~"

utf8_encode(cp) ==
    IF cp >= 32 /\ cp < 96 THEN Sub(AsciiLow, cp - 32, 1)
    ELSE IF cp >= 97 /\ cp < 127 THEN Sub(AsciiHigh, cp - 97, 1)
    ELSE IF cp < 32 THEN control_byte(cp)
    ELSE IF cp < 128 THEN "^c"
    ELSE IF cp < 2048 THEN "^2^2"
    ELSE IF cp < 65536 THEN "^3^3^3"
    ELSE "^4^4^4^4"

hex4(str, i) ==
    LET d(k) == DigitVal(At(str, i + k)) IN
    IF d(1) < 0 \/ d(2) < 0 \/ d(3) < 0 \/ d(4) < 0 THEN -1
    ELSE d(1) * 4096 + d(2) * 256 + d(3) * 16 + d(4)

\* The escape-processing loop of parse_string over str[0..len).
RECURSIVE unescape(_, _, _)
unescape(str, i, buf) ==
    IF i >= Len(str) THEN buf
    ELSE IF At(str, i) = "\\" /\ i + 1 < Len(str)
    THEN LET e == At(str, i + 1) IN
         CASE e = "b" -> unescape(str, i + 2, buf \o control_byte(8))
           [] e = "f" -> unescape(str, i + 2, buf \o "\f")
           [] e = "n" -> unescape(str, i + 2, buf \o "\n")
           [] e = "r" -> unescape(str, i + 2, buf \o "\r")
           [] e = "t" -> unescape(str, i + 2, buf \o "\t")
           [] e = "u" ->
                IF (i + 1) + 4 >= Len(str) THEN unescape(str, i + 2, buf \o "u")
                ELSE IF hex4(str, i + 1) < 0 THEN unescape(str, i + 2, buf \o "u")
                ELSE unescape(str, i + 6, buf \o utf8_encode(hex4(str, i + 1)))
           [] OTHER -> unescape(str, i + 2, buf \o e)
    ELSE unescape(str, i + 1, buf \o At(str, i))

parse_string(json, pos0) ==
    IF At(json, pos0) # "\"" THEN PR(NULL, pos0, TRUE)
    ELSE With(scan_string(json, pos0 + 1), LAMBDA q :
            IF q = -1 THEN PR(NULL, Len(json), TRUE)
            ELSE IF q >= Len(json) THEN PR(NULL, q, TRUE)
            ELSE With(Sub(json, pos0 + 1, q - (pos0 + 1)), LAMBDA str :
                    PR(agent_json_string_n(IF find_substr(str, "\\") >= 0
                                           THEN unescape(str, 0, "") ELSE str),
                       q + 1, FALSE)))

RECURSIVE skip_digits(_, _)
skip_digits(json, pos) ==
    IF At(json, pos) \in Digits THEN skip_digits(json, pos + 1) ELSE pos

\* strtoll over an optional '-' and decimal digits.
RECURSIVE strtoll_digits(_, _, _)
strtoll_digits(s, i, acc) ==
    IF i >= Len(s) THEN acc ELSE strtoll_digits(s, i + 1, acc * 10 + DigitVal(At(s, i)))

strtoll(s) ==
    IF At(s, 0) = "-" THEN 0 - strtoll_digits(s, 1, 0) ELSE strtoll_digits(s, 0, 0)

parse_number(json, start) ==
    LET p1 == IF At(json, start) = "-" THEN start + 1 ELSE start
        intOk == At(json, p1) \in Digits
        p2 == IF At(json, p1) = "0" THEN p1 + 1 ELSE skip_digits(json, p1)
        hasFrac == At(json, p2) = "."
        fracOk == hasFrac => At(json, p2 + 1) \in Digits
        p3 == IF hasFrac THEN skip_digits(json, p2 + 1) ELSE p2
        hasExp == At(json, p3) \in {"e", "E"}
        p4 == IF hasExp /\ At(json, p3 + 1) \in {"+", "-"} THEN p3 + 2
              ELSE IF hasExp THEN p3 + 1 ELSE p3
        expOk == hasExp => At(json, p4) \in Digits
        p5 == IF hasExp THEN skip_digits(json, p4) ELSE p3
    IN IF ~intOk THEN PR(NULL, p1, TRUE)
       ELSE IF ~fracOk THEN PR(NULL, p2 + 1, TRUE)
       ELSE IF ~expOk THEN PR(NULL, p4, TRUE)
       ELSE IF hasFrac \/ hasExp
            THEN PR(agent_json_double(Sub(json, start, p5 - start)), p5, FALSE)
            ELSE PR(agent_json_int(strtoll(Sub(json, start, p5 - start))), p5, FALSE)

RECURSIVE parse_value(_, _)
RECURSIVE parse_array_items(_, _, _)
RECURSIVE parse_object_entries(_, _, _)

\* The do/while of parse_array, entered with pos at the next element.
parse_array_items(json, pos, array) ==
    With(parse_value(json, skip_whitespace(json, pos)), LAMBDA el :
        IF el.value = NULL \/ el.error THEN PR(NULL, el.pos, TRUE)
        ELSE With(skip_whitespace(json, el.pos), LAMBDA p :
                IF At(json, p) = ","
                THEN parse_array_items(json, p + 1,
                                       agent_json_array_append(array, el.value))
                ELSE IF At(json, p) = "]"
                THEN PR(agent_json_array_append(array, el.value), p + 1, FALSE)
                ELSE PR(NULL, p, TRUE)))

parse_array(json, pos) ==
    IF At(json, pos) # "[" THEN PR(NULL, pos, TRUE)
    ELSE LET p == skip_whitespace(json, pos + 1) IN
         IF At(json, p) = "]" THEN PR(agent_json_array, p + 1, FALSE)
         ELSE parse_array_items(json, p, agent_json_array)

\* The do/while of parse_object, entered with pos at the next key.
parse_object_entries(json, pos, object) ==
    With(skip_whitespace(json, pos), LAMBDA p0 :
    IF At(json, p0) # "\"" THEN PR(NULL, p0, TRUE)
    ELSE With(parse_string(json, p0), LAMBDA key_val :
         IF key_val.value = NULL \/ key_val.error THEN PR(NULL, key_val.pos, TRUE)
         ELSE With(skip_whitespace(json, key_val.pos), LAMBDA p1 :
              IF At(json, p1) # ":" THEN PR(NULL, p1, TRUE)
              ELSE With(parse_value(json, skip_whitespace(json, p1 + 1)), LAMBDA v :
                   IF v.value = NULL \/ v.error THEN PR(NULL, v.pos, TRUE)
                   ELSE With(agent_json_object_set_n(object,
                                 key_val.value.string_value, v.value), LAMBDA obj2 :
                        With(skip_whitespace(json, v.pos), LAMBDA p2 :
                           IF At(json, p2) = "," THEN parse_object_entries(json, p2 + 1, obj2)
                           ELSE IF At(json, p2) = "}" THEN PR(obj2, p2 + 1, FALSE)
                           ELSE PR(NULL, p2, TRUE)))))))

parse_object(json, pos) ==
    IF At(json, pos) # "{" THEN PR(NULL, pos, TRUE)
    ELSE LET p == skip_whitespace(json, pos + 1) IN
         IF At(json, p) = "}" THEN PR(agent_json_object, p + 1, FALSE)
         ELSE parse_object_entries(json, p, agent_json_object)

parse_value(json, pos0) ==
    LET pos == skip_whitespace(json, pos0)
        c == At(json, pos)
    IN IF pos >= Len(json) THEN PR(NULL, pos, TRUE)
       ELSE IF c = "n" /\ pos + 4 <= Len(json) /\ Sub(json, pos, 4) = "null"
            THEN PR(agent_json_null, pos + 4, FALSE)
       ELSE IF c = "t" /\ pos + 4 <= Len(json) /\ Sub(json, pos, 4) = "true"
            THEN PR(agent_json_bool(TRUE), pos + 4, FALSE)
       ELSE IF c = "f" /\ pos + 5 <= Len(json) /\ Sub(json, pos, 5) = "false"
            THEN PR(agent_json_bool(FALSE), pos + 5, FALSE)
       ELSE IF c = "\"" THEN parse_string(json, pos)
       ELSE IF c = "[" THEN parse_array(json, pos)
       ELSE IF c = "{" THEN parse_object(json, pos)
       ELSE IF c = "-" \/ c \in Digits THEN parse_number(json, pos)
       ELSE PR(NULL, pos, TRUE)

\* agent_json_parse: error is TRUE for AGENT_ERROR_PARSE_ERROR.
agent_json_parse(json) ==
    With(parse_value(json, 0), LAMBDA r :
        IF r.error THEN r
        ELSE With(skip_whitespace(json, r.pos), LAMBDA p :
                IF p < Len(json) THEN PR(r.value, p, TRUE) ELSE r))

(***************************************************************************)
(* Response parser, batch path (agent_parser.c)                            *)
(***************************************************************************)
\* find_matching_brace: offset of the brace closing start[0], -1 for NULL.
RECURSIVE brace_scan(_, _, _, _, _)
brace_scan(start, i, depth, in_string, escape) ==
    IF i >= Len(start) THEN -1
    ELSE LET c == At(start, i) IN
         IF escape THEN brace_scan(start, i + 1, depth, in_string, FALSE)
         ELSE IF c = "\\" /\ in_string THEN brace_scan(start, i + 1, depth, in_string, TRUE)
         ELSE IF c = "\"" THEN brace_scan(start, i + 1, depth, ~in_string, FALSE)
         ELSE IF ~in_string /\ c = "{" THEN brace_scan(start, i + 1, depth + 1, in_string, FALSE)
         ELSE IF ~in_string /\ c = "}"
              THEN IF depth - 1 = 0 THEN i
                   ELSE brace_scan(start, i + 1, depth - 1, in_string, FALSE)
         ELSE brace_scan(start, i + 1, depth, in_string, FALSE)

find_matching_brace(start) ==
    IF Len(start) = 0 \/ At(start, 0) # "{" THEN -1
    ELSE brace_scan(start, 0, 0, FALSE, FALSE)

\* Variant: an object without the member "arguments" is no tool call.
agent_parser_parse_tool_call_json_needing_arguments(json) ==
    IF Len(json) = 0 THEN NULL
    ELSE With(agent_json_parse(json), LAMBDA result :
         IF result.error \/ result.value = NULL THEN NULL
         ELSE IF result.value.type # "object" THEN NULL
         ELSE LET name_val == agent_json_object_get(result.value, "name")
                  args_val == agent_json_object_get(result.value, "arguments")
              IN IF name_val = NULL \/ name_val.type # "string" \/ args_val = NULL THEN NULL
                 ELSE [type |-> "tc",
                       name |-> name_val.string_value,
                       arguments |-> args_val,
                       raw_json |-> json])

\* agent_parser_parse_tool_call_json: NULL, or the parsed call.
agent_parser_parse_tool_call_json(json) ==
    IF Len(json) = 0 THEN NULL
    ELSE With(agent_json_parse(json), LAMBDA result :
         IF result.error \/ result.value = NULL THEN NULL
         ELSE IF result.value.type # "object" THEN NULL
         ELSE LET name_val == agent_json_object_get(result.value, "name")
                  args_val == agent_json_object_get(result.value, "arguments")
              IN IF name_val = NULL \/ name_val.type # "string" THEN NULL
                 ELSE [type |-> "tc",
                       name |-> name_val.string_value,
                       arguments |-> IF args_val = NULL THEN agent_json_object ELSE args_val,
                       raw_json |-> json])

\* Variant: the backward scan stops at the nearest brace whatever lies
\* between.
RECURSIVE scan_back_over_any(_, _)
scan_back_over_any(response, p) ==
    IF p < 0 THEN -1
    ELSE IF At(response, p) = "{" THEN p
    ELSE scan_back_over_any(response, p - 1)

\* The backward scan of agent_parser_find_bare_json from found - 1: the
\* offset of the opening brace, -1 when json_start stays NULL.
RECURSIVE scan_back(_, _)
scan_back(response, p) ==
    IF p < 0 THEN -1
    ELSE IF At(response, p) = "{" THEN p
    ELSE IF At(response, p) \notin {" ", "\t", "\n", "\r"} THEN -1
    ELSE scan_back(response, p - 1)

\* agent_parser_find_bare_json: NULL, or the call with out_before/out_after.
agent_parser_find_bare_json(response) ==
    IF Len(response) = 0 THEN NULL
    ELSE With(find_substr(response, "\"name\""), LAMBDA found :
         IF found < 0 THEN NULL
         ELSE With(scan_back(response, found - 1), LAMBDA json_start :
              IF json_start < 0 THEN NULL
              ELSE With(find_matching_brace(From(response, json_start)), LAMBDA json_end_rel :
                   IF json_end_rel < 0 THEN NULL
                   ELSE LET json_len == json_end_rel + 1
                            json == Sub(response, json_start, json_len)
                        IN IF find_substr(json, "\"arguments\"") < 0 THEN NULL
                           ELSE With(agent_parser_parse_tool_call_json(json), LAMBDA tc :
                                IF tc = NULL THEN NULL
                                ELSE [type |-> "bare", tc |-> tc,
                                      before |-> Sub(response, 0, json_start),
                                      after |-> From(response, json_start + json_len)]))))

agent_parser_has_tool_call(response) ==
    IF Len(response) = 0 THEN FALSE
    ELSE LET open == find_substr(response, TAG_TOOL_CALL_OPEN) IN
         IF open < 0 THEN FALSE
         ELSE find_substr(From(response, open), TAG_TOOL_CALL_CLOSE) >= 0

agent_parser_has_incomplete_tool_call(response) ==
    IF Len(response) = 0 THEN FALSE
    ELSE LET open == find_substr(response, TAG_TOOL_CALL_OPEN) IN
         IF open < 0 THEN FALSE
         ELSE find_substr(From(response, open), TAG_TOOL_CALL_CLOSE) < 0

\* agent_parser_extract_thinking: out_thinking and out_content.
agent_parser_extract_thinking(response) ==
    LET think == find_substr(response, TAG_THINK_OPEN)
        thinking == find_substr(response, TAG_THINKING_OPEN)
        open_tag == IF think >= 0 THEN think ELSE thinking
        open_len == IF think >= 0 THEN TAG_THINK_OPEN_LEN ELSE TAG_THINKING_OPEN_LEN
        close_str == IF think >= 0 THEN TAG_THINK_CLOSE ELSE TAG_THINKING_CLOSE
        close_len == IF think >= 0 THEN TAG_THINK_CLOSE_LEN ELSE TAG_THINKING_CLOSE_LEN
        close_rel == IF open_tag >= 0 THEN find_substr(From(response, open_tag), close_str)
                     ELSE -1
        close_tag == IF close_rel >= 0 THEN open_tag + close_rel ELSE -1
        only_think == find_substr(response, TAG_THINK_CLOSE)
        only_thinking == find_substr(response, TAG_THINKING_CLOSE)
        only_close == IF only_think >= 0 THEN only_think ELSE only_thinking
        only_len == IF only_think >= 0 THEN TAG_THINK_CLOSE_LEN ELSE TAG_THINKING_CLOSE_LEN
    IN IF open_tag < 0 /\ only_close >= 0
       THEN [thinking |-> agent_sv_trim(Sub(response, 0, only_close)),
             content |-> agent_sv_trim(From(response, only_close + only_len))]
       ELSE IF open_tag >= 0 /\ close_tag >= 0
       THEN [thinking |-> agent_sv_trim(Sub(response, open_tag + open_len,
                                            close_tag - (open_tag + open_len))),
             content |-> agent_sv_trim(Sub(response, 0, open_tag)
                                       \o From(response, close_tag + close_len))]
       ELSE [thinking |-> "", content |-> response]

\* Parsed content segments (agent_parsed_content_t).
TextSeg(t) == [type |-> "text", text |-> t, name |-> "", arguments |-> NULL]
ThinkingSeg(t) == [type |-> "thinking", text |-> t, name |-> "", arguments |-> NULL]
ToolCallSeg(n, a) == [type |-> "tool_call", text |-> "", name |-> n, arguments |-> a]

\* A text segment is added only when its trimmed text is non-empty.
AddText(contents, raw) ==
    IF Len(agent_sv_trim(raw)) > 0 THEN Append(contents, TextSeg(agent_sv_trim(raw)))
    ELSE contents

\* Variant: the rest of the response is kept as text.
unterminated_tool_call_as_text(contents, rest) == AddText(contents, rest)

\* An opening tag without a closing tag: the loop breaks, and rest, the
\* response from the opening tag on, is left out.
unterminated_tool_call(contents, rest) == contents

\* The while (remaining > 0) loop of agent_parser_parse.
RECURSIVE parse_scan(_, _, _)
parse_scan(response, pos, contents) ==
    IF Len(response) - pos <= 0 THEN contents
    ELSE With(From(response, pos), LAMBDA tail :
         With(find_substr(tail, TAG_TOOL_CALL_OPEN), LAMBDA tool_open_rel :
            IF tool_open_rel < 0
            THEN With(agent_parser_find_bare_json(tail), LAMBDA bare :
                 IF bare # NULL
                 THEN AddText(Append(AddText(contents, bare.before),
                                     ToolCallSeg(bare.tc.name, bare.tc.arguments)),
                              bare.after)
                 ELSE AddText(contents, tail))
            ELSE With(IF tool_open_rel > 0
                      THEN AddText(contents, Sub(tail, 0, tool_open_rel))
                      ELSE contents, LAMBDA with_text :
                 With(tool_open_rel + TAG_TOOL_CALL_OPEN_LEN, LAMBDA content_start :
                 With(find_substr(From(tail, content_start), TAG_TOOL_CALL_CLOSE),
                      LAMBDA close_rel :
                    IF close_rel < 0
                    THEN unterminated_tool_call(with_text, From(tail, tool_open_rel))
                    ELSE With(agent_parser_parse_tool_call_json(
                                  Sub(tail, content_start, close_rel)), LAMBDA tc :
                         parse_scan(response,
                                    pos + content_start + close_rel + TAG_TOOL_CALL_CLOSE_LEN,
                                    IF tc # NULL
                                    THEN Append(with_text, ToolCallSeg(tc.name, tc.arguments))
                                    ELSE with_text)))))))

\* The second loop of agent_parser_parse: a text item whose thinking part is
\* non-empty is replaced by a thinking item followed by the remaining text.
RECURSIVE split_thinking(_, _)
split_thinking(contents, i) ==
    IF i > Len(contents) THEN contents
    ELSE IF contents[i].type = "text"
    THEN LET ex == agent_parser_extract_thinking(contents[i].text) IN
         IF Len(ex.thinking) > 0
         THEN split_thinking(SubSeq(contents, 1, i - 1)
                             \o <<ThinkingSeg(ex.thinking), TextSeg(ex.content)>>
                             \o SubSeq(contents, i + 1, Len(contents)), i + 2)
         ELSE split_thinking(contents, i + 1)
    ELSE split_thinking(contents, i + 1)

agent_parser_parse(response) ==
    IF Len(response) = 0 THEN <<>>
    ELSE split_thinking(parse_scan(response, 0, <<>>), 1)

(***************************************************************************)
(* Streaming parser (agent_parser.c)                                       *)
(***************************************************************************)
\* The byte 0, which a string constant of this notation cannot hold: this
\* character stands for it wherever a buffer is read as a C string.
NUL == "~"

\* strlen: the length of the C string that starts at data.
RECURSIVE strlen_from(_, _)
strlen_from(data, i) ==
    IF i >= Len(data) \/ At(data, i) = NUL THEN i ELSE strlen_from(data, i + 1)

strlen(data) == strlen_from(data, 0)

\* agent_string_cstr, as its readers (strcmp, agent_string_append) see it:
\* the bytes before the first byte 0.
agent_string_cstr(str) == Sub(str, 0, strlen(str))

\* A callback of the streaming parser, as the host receives it.
ParserEvent(kind, text, name, arguments) ==
    [kind |-> kind, text |-> text, name |-> name, arguments |-> arguments]

\* parser->on_text(data, length), made only for a non-empty buffer.
emit_text(buffer) ==
    IF Len(buffer) > 0 THEN <<ParserEvent("on_text", buffer, "", NULL)>> ELSE <<>>

\* The cap on a tag candidate in PARSER_STATE_TAG_OPEN.
MAX_TAG_CANDIDATE == 15

agent_streaming_parser_init ==
    [state |-> "TEXT", buffer |-> "", tag_buffer |-> "", content_buffer |-> "",
     in_tool_call |-> FALSE, in_think |-> FALSE, brace_depth |-> 0]

agent_streaming_parser_reset(parser) ==
    [parser EXCEPT !.state = "TEXT", !.buffer = "", !.tag_buffer = "",
                   !.content_buffer = "", !.in_tool_call = FALSE,
                   !.in_think = FALSE, !.brace_depth = 0]

\* The tag candidate completed by '>' opens a tool call.
enters_tool_call(tag) == tag = TAG_TOOL_CALL_OPEN

\* One pass of the loop of agent_streaming_parser_feed: the parser after
\* byte c, and the callbacks made on the way.
feed_text(parser, c) ==
    IF c = "<"
    THEN [parser |-> [parser EXCEPT !.state = "TAG_OPEN", !.tag_buffer = c],
          out |-> <<>>]
    ELSE [parser |-> [parser EXCEPT !.buffer = @ \o c], out |-> <<>>]

feed_tag_open(parser, c) ==
    With(parser.tag_buffer \o c, LAMBDA tag_buffer :
      IF c = ">" THEN
        With(agent_string_cstr(tag_buffer), LAMBDA tag :
          IF enters_tool_call(tag)
          THEN [parser |-> [parser EXCEPT !.buffer = "", !.state = "TOOL_CALL",
                                          !.in_tool_call = TRUE,
                                          !.content_buffer = "", !.tag_buffer = ""],
                out |-> emit_text(parser.buffer)]
          ELSE IF tag = TAG_THINK_OPEN \/ tag = TAG_THINKING_OPEN
          THEN [parser |-> [parser EXCEPT !.buffer = "", !.state = "THINK",
                                          !.in_think = TRUE,
                                          !.content_buffer = "", !.tag_buffer = ""],
                out |-> emit_text(parser.buffer)]
          ELSE [parser |-> [parser EXCEPT !.buffer = @ \o tag, !.state = "TEXT",
                                          !.tag_buffer = ""],
                out |-> <<>>])
      ELSE IF Len(tag_buffer) > MAX_TAG_CANDIDATE
      THEN [parser |-> [parser EXCEPT !.buffer = @ \o tag_buffer,
                                      !.tag_buffer = "", !.state = "TEXT"],
            out |-> <<>>]
      ELSE [parser |-> [parser EXCEPT !.tag_buffer = tag_buffer], out |-> <<>>])

feed_tool_call(parser, c) ==
    With(parser.content_buffer \o c, LAMBDA content :
      IF /\ Len(content) >= TAG_TOOL_CALL_CLOSE_LEN
         /\ From(content, Len(content) - TAG_TOOL_CALL_CLOSE_LEN) = TAG_TOOL_CALL_CLOSE
      THEN With(agent_parser_parse_tool_call_json(
                    Sub(content, 0, Len(content) - TAG_TOOL_CALL_CLOSE_LEN)),
                LAMBDA tc :
             [parser |-> [parser EXCEPT !.content_buffer = "", !.state = "TEXT",
                                        !.in_tool_call = FALSE],
              out |-> IF tc # NULL
                      THEN <<ParserEvent("on_tool_call", "", tc.name, tc.arguments)>>
                      ELSE <<>>])
      ELSE [parser |-> [parser EXCEPT !.content_buffer = content], out |-> <<>>])

feed_think(parser, c) ==
    With(parser.content_buffer \o c, LAMBDA content :
      IF /\ Len(content) >= TAG_THINK_CLOSE_LEN
         /\ From(content, Len(content) - TAG_THINK_CLOSE_LEN) = TAG_THINK_CLOSE
      THEN [parser |-> [parser EXCEPT !.content_buffer = "", !.state = "TEXT",
                                      !.in_think = FALSE],
            out |-> <<ParserEvent("on_thinking",
                          Sub(content, 0, Len(content) - TAG_THINK_CLOSE_LEN),
                          "", NULL)>>]
      ELSE IF /\ Len(content) >= TAG_THINKING_CLOSE_LEN
              /\ From(content, Len(content) - TAG_THINKING_CLOSE_LEN)
                    = TAG_THINKING_CLOSE
      THEN [parser |-> [parser EXCEPT !.content_buffer = "", !.state = "TEXT",
                                      !.in_think = FALSE],
            out |-> <<ParserEvent("on_thinking",
                          Sub(content, 0, Len(content) - TAG_THINKING_CLOSE_LEN),
                          "", NULL)>>]
      ELSE [parser |-> [parser EXCEPT !.content_buffer = content], out |-> <<>>])

feed_byte(parser, c) ==
    CASE parser.state = "TEXT" -> feed_text(parser, c)
      [] parser.state = "TAG_OPEN" -> feed_tag_open(parser, c)
      [] parser.state = "TOOL_CALL" -> feed_tool_call(parser, c)
      [] parser.state = "THINK" -> feed_think(parser, c)
      [] OTHER -> [parser |-> [parser EXCEPT !.state = "TEXT"], out |-> <<>>]

\* One pass of the for loop of agent_streaming_parser_feed on byte c: acc
\* holds the parser, the callbacks made so far and, as steps, the parser
\* after every byte consumed so far.
feed_pass(acc, c) ==
    With(feed_byte(acc.parser, c), LAMBDA r :
      [parser |-> r.parser,
       out |-> acc.out \o r.out,
       steps |-> Append(acc.steps, [byte |-> c, parser |-> r.parser])])

\* The for loop of agent_streaming_parser_feed; the index i of the next byte
\* is the number of bytes consumed so far.
RECURSIVE feed_loop(_, _)
feed_loop(acc, token) ==
    IF Len(acc.steps) >= Len(token) THEN acc
    ELSE feed_loop(feed_pass(acc, At(token, Len(acc.steps))), token)

\* The text emitted when a feed ends in PARSER_STATE_TEXT.
feed_end(parser) ==
    IF parser.state = "TEXT" /\ Len(parser.buffer) > 0
    THEN [parser |-> [parser EXCEPT !.buffer = ""], out |-> emit_text(parser.buffer)]
    ELSE [parser |-> parser, out |-> <<>>]

\* agent_streaming_parser_feed(parser, token, length).
agent_streaming_parser_feed(parser, token) ==
    With(feed_loop([parser |-> parser, out |-> <<>>, steps |-> <<>>], token),
         LAMBDA r :
      With(feed_end(r.parser), LAMBDA e :
        [parser |-> e.parser, out |-> r.out \o e.out, steps |-> r.steps]))

\* agent_streaming_parser_flush.
agent_streaming_parser_flush(parser) ==
    [parser |-> [parser EXCEPT !.buffer = "", !.tag_buffer = ""],
     out |-> emit_text(parser.buffer) \o emit_text(parser.tag_buffer)]

agent_streaming_parser_in_tool_call(parser) == parser.in_tool_call

(***************************************************************************)
(* UTF-8 boundary and truncation (agent_string.c, agent_orchestrator.c)    *)
(***************************************************************************)
\* The bytes 0xA1..0xFF, each written as the character of that code point;
\* with the ASCII tables this gives every byte of a buffer its value.
HighBytes ==
    "¡¢£¤¥¦§¨©ª«¬­®¯°±²³´µ¶·¸¹º»¼½¾¿ÀÁÂÃÄÅÆÇÈÉÊËÌÍÎÏÐÑÒÓÔÕÖ×ØÙÚÛÜÝÞßàáâãäåæçèéêëìíîïðñòóôõö÷øùúûüýþÿ"

\* (uint8_t)c for the byte c of a buffer.
byte_value ==
    [c \in {At(HighBytes, i) : i \in 0..(Len(HighBytes) - 1)} |->
        161 + find_substr(HighBytes, c)]
    @@ [c \in {At(AsciiLow, i) : i \in 0..(Len(AsciiLow) - 1)} |->
        32 + find_substr(AsciiLow, c)]
    @@ [c \in {At(AsciiHigh, i) : i \in 0..(Len(AsciiHigh) - 1)} |->
        97 + find_substr(AsciiHigh, c)]
    @@ ("\t" :> 9 @@ "\n" :> 10 @@ "\f" :> 12 @@ "\r" :> 13)
    @@ [c \in {At(ControlBytes, i) : i \in 0..(Len(ControlBytes) - 1)} |->
        find_substr(ControlBytes, c)]

\* agent_utf8_char_length: the masks 0xE0, 0xF0, 0xF8 as divisions.
agent_utf8_char_length(first_byte) ==
    With(byte_value[first_byte], LAMBDA b :
        IF b < 128 THEN 1
        ELSE IF b \div 32 = 6 THEN 2
        ELSE IF b \div 16 = 14 THEN 3
        ELSE IF b \div 8 = 30 THEN 4
        ELSE 0)

\* The loop of agent_utf8_validate from offset p: FALSE at the first byte
\* sequence that is truncated, has a wrong continuation byte, is overlong,
\* is a surrogate or lies above U+10FFFF.
RECURSIVE utf8_validate_from(_, _)
utf8_validate_from(data, p) ==
    LET end == Len(data)
        byte == byte_value[At(data, p)]
        b(i) == byte_value[At(data, p + i)]
        cont(i) == b(i) \div 64 = 2
    IN IF p >= end THEN TRUE
       ELSE IF byte < 128 THEN utf8_validate_from(data, p + 1)
       ELSE IF byte \div 32 = 6
       THEN IF p + 1 >= end THEN FALSE
            ELSE IF ~cont(1) THEN FALSE
            ELSE IF byte < 194 THEN FALSE
            ELSE utf8_validate_from(data, p + 2)
       ELSE IF byte \div 16 = 14
       THEN IF p + 2 >= end THEN FALSE
            ELSE IF ~cont(1) \/ ~cont(2) THEN FALSE
            ELSE LET cp == (byte % 16) * 4096 + (b(1) % 64) * 64 + (b(2) % 64)
                 IN IF cp < 2048 THEN FALSE
                    ELSE IF cp >= 55296 /\ cp <= 57343 THEN FALSE
                    ELSE utf8_validate_from(data, p + 3)
       ELSE IF byte \div 8 = 30
       THEN IF p + 3 >= end THEN FALSE
            ELSE IF ~cont(1) \/ ~cont(2) \/ ~cont(3) THEN FALSE
            ELSE LET cp == (byte % 8) * 262144 + (b(1) % 64) * 4096
                             + (b(2) % 64) * 64 + (b(3) % 64)
                 IN IF cp < 65536 \/ cp > 1114111 THEN FALSE
                    ELSE utf8_validate_from(data, p + 4)
       ELSE FALSE

agent_utf8_validate(data) == utf8_validate_from(data, 0)

RECURSIVE utf8_boundary_scan(_, _, _)
utf8_boundary_scan(data, length, pos) ==
    IF pos >= length THEN pos
    ELSE LET char_len == agent_utf8_char_length(At(data, pos)) IN
         IF char_len = 0 THEN utf8_boundary_scan(data, length, pos + 1)
         ELSE IF pos + char_len > length THEN pos
         ELSE utf8_boundary_scan(data, length, pos + char_len)

\* Variant: the length is returned as it is.
agent_utf8_complete_boundary_uncut(data, length) == length

agent_utf8_complete_boundary(data, length) ==
    IF length = 0 THEN 0 ELSE utf8_boundary_scan(data, length, 0)

\* agent_truncate_text for max_len >= 3 (max_len - 3 does not wrap).
agent_truncate_text(text, max_len) ==
    IF Len(text) <= max_len THEN text
    ELSE Sub(text, 0, agent_utf8_complete_boundary(text, max_len - 3)) \o "..."

(***************************************************************************)
(* Orchestrator (agent_orchestrator.c)                                     *)
(***************************************************************************)
AGENT_MAX_ITERATIONS == 10

\* Bounds of the model.
MaxIterationsCfg == 2      \* largest configured max_iterations
MaxRuns == 1               \* agent_run calls per behaviour
MaxToolResultLen == 12     \* configured max_tool_result_len

AGENT_OK == "ok"
AGENT_ERROR_MAX_ITERATIONS == "max_iterations"
AGENT_ERROR_CANCELLED == "cancelled"
AGENT_ERROR_CALLBACK_FAILED == "callback_failed"
AGENT_ERROR_INVALID_ARGUMENT == "invalid_argument"

\* Error codes a generate callback reports (agent_llm_result_t.error is an
\* agent_error_t).  The loop tells apart OK, cancelled and max_iterations;
\* callback_failed stands for every other code.
GenErrors == {AGENT_ERROR_CALLBACK_FAILED, AGENT_ERROR_MAX_ITERATIONS,
              AGENT_ERROR_CANCELLED}

ToolCallBlock(name) ==
    "<tool_call>{\"name\": \"" \o name \o "\", \"arguments\": {}}</tool_call>"

\* Responses of the generator, each as the chunks it streams: plain text; a
\* tool call between two texts, its opening tag split across chunks; two
\* tool calls and no text, the first whole in one chunk; a thinking block
\* and an answer; an unterminated tool call.
Responses ==
    { <<"Hello! How can I help you?">>,
      <<"Let me check. <tool", "_call>{\"name\": \"test_tool\", ",
        "\"arguments\": {}}</tool_call> Wait.">>,
      <<ToolCallBlock("error_tool") \o "<tool_call>",
        "{\"name\": \"test_tool\", \"arguments\": {}}</tool_call>">>,
      <<"<think>reason</think>answer">>,
      <<"<tool_call>{\"name\"">> }

\* The tool executor of the host, as the mock of the test suite: the tool
\* named error_tool fails, every other tool succeeds.
execute_tool(tool_name) ==
    IF tool_name = "error_tool"
    THEN [content |-> "Error: something went wrong", is_error |-> TRUE]
    ELSE [content |-> "Tool result", is_error |-> FALSE]

UserContents == {"Hi"}

\* Variant: the loop test admits one iteration too many.
loop_continues_inclusive(has_tc, count, max) == has_tc /\ count <= max

\* The test of the main loop.
loop_continues(has_tc, count, max) == has_tc /\ count < max

\* Variant: the cap is reported whether or not a tool call is pending.
max_iterations_reached_any(has_tc, count, max) == count >= max

\* The test made after the main loop.
max_iterations_reached(has_tc, count, max) == has_tc /\ count >= max

\* Variant: the result is filled in on success only.
result_built_ok_only(error) == error = AGENT_OK

\* The run result carries a response, tool calls and thinking only then.
result_built(error) == error \in {AGENT_OK, AGENT_ERROR_MAX_ITERATIONS}

\* Variant: the tool result loses the executor's is_error.
tool_result_record_no_error(content, is_error) ==
    [content |-> content, is_error |-> FALSE]

\* The tool result attached to the tool message.
tool_result_record(content, is_error) ==
    [content |-> content, is_error |-> is_error]

\* A text segment is appended to the turn's text buffer.
append_text_segment(buffer, text) == buffer \o text \o " "

\* An assistant message is pushed at the end of process_iteration.
pushes_assistant(buffer, has_tc) == Len(buffer) > 0 \/ ~has_tc

\* The token callback checks for a tool-call start.
detects_tool_call(detected, response) ==
    ~detected /\ agent_parser_has_incomplete_tool_call(response)

\* The token callback passes the chunk to the user's on_token.
forwards_token(detected, has_on_token) == ~detected /\ has_on_token

\* The final message is added to the permanent transcript.
appends_final(response) == Len(response) > 0

\* Variant: the message is put at the head of the array.
message_array_add_front(arr, msg) == <<msg>> \o arr

\* message_array_add: the message is stored at messages[count] and count
\* goes up by one.
message_array_add(arr, msg) == Append(arr, msg)

VARIABLES
    config,            \* agent_config_t: max_iterations, max_tool_result_len, optional callbacks
    messages,          \* permanent transcript
    working_history,   \* working transcript of the current run
    current_step, iteration_count, is_processing, should_stop,
    current_response,  \* response accumulator
    thinking_content,  \* thinking accumulator
    pc,                \* where agent_run_streaming stands
    tool_calls,        \* all_tool_calls of the run
    has_tool_call,
    result,            \* agent_run_result_t of the current / last run
    detected_tool_call,\* stream_context_t.detected_tool_call
    parse_result, seg_i, text_content,   \* locals of process_iteration
    gen,               \* the generator: chunks still to stream, last callback return
    events,            \* callbacks invoked by the current run, in order
    tokens,            \* token-callback invocations of the current iteration
    hist,              \* bookkeeping of the run: what the host did and saw
    parser,            \* agent_streaming_parser_t (state->parser)
    stream             \* the host of the streaming parser: input, position, callbacks seen

vars == <<config, messages, working_history, current_step, iteration_count,
          is_processing, should_stop, current_response, thinking_content, pc,
          tool_calls, has_tool_call, result, detected_tool_call, parse_result,
          seg_i, text_content, gen, events, tokens, hist, parser, stream>>

Message(role, content, tcs, trs, thinking) ==
    [role |-> role, content |-> content, tool_calls |-> tcs,
     tool_results |-> trs, thinking_content |-> thinking]

ZeroResult ==
    [error |-> AGENT_OK, response |-> "", tool_calls |-> <<>>,
     tool_calls_count |-> 0, thinking |-> "", iterations |-> 0]

Ev(kind, step, name, processing) ==
    [kind |-> kind, step |-> step, name |-> name, processing |-> processing]

\* Variant: the return to NONE is not reported.
StepReport_skip_none(step, tool_name, processing) ==
    IF config.on_step_change /\ step # "NONE"
    THEN <<Ev("step", step, tool_name, processing)>> ELSE <<>>

\* set_step: the report made through on_step_change, if configured.
StepReport(step, tool_name, processing) ==
    IF config.on_step_change THEN <<Ev("step", step, tool_name, processing)>> ELSE <<>>

ZeroHist ==
    [runs |-> 0, users |-> 0, before |-> <<>>, gen_calls |-> 0, exec_calls |-> 0,
     responses |-> <<>>, gen_error |-> AGENT_OK, stop_in_flight |-> FALSE,
     stop_any |-> FALSE, tool_errors |-> 0, start_users |-> 0,
     stop_before |-> FALSE, just_reset |-> FALSE, was_reset |-> FALSE,
     reset_dropped |-> 0]

\* No stream is being fed to the parser.
NoStream ==
    [input |-> "", pos |-> 0, out |-> <<>>, steps |-> <<>>, last |-> "init",
     extra |-> "none", mark |-> 0, before |-> agent_streaming_parser_init,
     parsed |-> <<>>, bare |-> NULL, arg |-> 0, ret |-> NULL, ctx |-> NULL]

\* The agent after agent_init(state, cfg).
agent_init(cfg) ==
    /\ config = cfg
    /\ messages = <<>>
    /\ working_history = <<>>
    /\ current_step = "NONE"
    /\ iteration_count = 0
    /\ is_processing = FALSE
    /\ should_stop = FALSE
    /\ current_response = ""
    /\ thinking_content = ""
    /\ pc = "idle"
    /\ tool_calls = <<>>
    /\ has_tool_call = FALSE
    /\ result = ZeroResult
    /\ detected_tool_call = FALSE
    /\ parse_result = <<>>
    /\ seg_i = 0
    /\ text_content = ""
    /\ gen = [script |-> <<>>, last_ret |-> TRUE]
    /\ events = <<>>
    /\ tokens = <<>>
    /\ hist = ZeroHist
    /\ parser = agent_streaming_parser_init

Init ==
    /\ \E max \in 1..MaxIterationsCfg, callbacks \in BOOLEAN :
         agent_init([max_iterations |-> max,
                     max_tool_result_len |-> MaxToolResultLen,
                     on_token |-> callbacks,
                     on_step_change |-> callbacks])
    /\ stream = NoStream

\* The runs the host makes in a behaviour: MaxRuns, and stream.arg more where
\* a specification starts with it set.
RunsOfHost == MaxRuns + stream.arg

\* agent_add_user_message on an idle agent; the host adds the user's message
\* ahead of each run.
agent_add_user_message ==
    /\ pc = "idle"
    /\ hist.runs < RunsOfHost
    /\ hist.users = hist.runs
    /\ \E content \in UserContents :
         messages' = message_array_add(messages, Message("user", content, <<>>, <<>>, ""))
    /\ hist' = [hist EXCEPT !.users = @ + 1, !.just_reset = FALSE]
    /\ UNCHANGED <<config, parser, stream, working_history, current_step, iteration_count,
                   is_processing, should_stop, current_response, thinking_content,
                   pc, tool_calls, has_tool_call, result, detected_tool_call,
                   parse_result, seg_i, text_content, gen, events, tokens>>

\* Variant: the transcript survives the reset.
message_array_reset_kept(arr) == arr

\* agent_reset's "Reinitialize arrays": a fresh block and count = 0.
message_array_reset(arr) == <<>>

\* agent_reset on an idle agent.
agent_reset ==
    /\ pc = "idle"
    /\ ~hist.just_reset
    /\ messages' = message_array_reset(messages)
    /\ working_history' = message_array_reset(working_history)
    /\ current_step' = "NONE"
    /\ iteration_count' = 0
    /\ is_processing' = FALSE
    /\ should_stop' = FALSE
    /\ current_response' = ""
    /\ thinking_content' = ""
    /\ parser' = agent_streaming_parser_reset(parser)
    /\ events' = <<>>
    /\ tokens' = <<>>
    /\ hist' = [ZeroHist EXCEPT !.runs = hist.runs, !.users = hist.runs,
                                !.just_reset = TRUE, !.was_reset = TRUE,
                                !.reset_dropped = Len(messages)]
    /\ UNCHANGED <<config, stream, pc, tool_calls, has_tool_call, result,
                   detected_tool_call, parse_result, seg_i, text_content, gen>>

\* agent_stop, callable at any moment.
agent_stop ==
    /\ should_stop' = TRUE
    /\ hist' = [hist EXCEPT
                  !.stop_in_flight = @ \/ pc \in {"generate", "execute"},
                  !.stop_any = @ \/ pc # "idle",
                  !.just_reset = FALSE]
    /\ UNCHANGED <<config, parser, stream, messages, working_history, current_step, iteration_count,
                   is_processing, current_response, thinking_content, pc,
                   tool_calls, has_tool_call, result, detected_tool_call,
                   parse_result, seg_i, text_content, gen, events, tokens>>

\* agent_run_streaming up to the main loop.
agent_run_streaming ==
    /\ pc = "idle"
    /\ ~is_processing
    /\ hist.runs < RunsOfHost
    /\ hist.users = hist.runs + 1
    /\ is_processing' = TRUE
    /\ should_stop' = FALSE
    /\ iteration_count' = 0
    /\ thinking_content' = ""
    /\ working_history' = messages
    /\ tool_calls' = <<>>
    /\ has_tool_call' = TRUE
    /\ result' = ZeroResult
    /\ pc' = "loop"
    /\ events' = <<>>
    /\ tokens' = <<>>
    /\ hist' = [ZeroHist EXCEPT !.runs = hist.runs + 1, !.users = hist.users,
                                !.before = messages, !.start_users = hist.users,
                                !.stop_before = should_stop]
    /\ UNCHANGED <<config, parser, stream, messages, current_step, current_response,
                   detected_tool_call, parse_result, seg_i, text_content, gen>>

\* Loop test passed: iteration_count++ and process_iteration up to the call
\* of generate.
IterationBegin ==
    /\ pc = "loop"
    /\ loop_continues(has_tool_call, iteration_count, config.max_iterations)
    /\ iteration_count' = iteration_count + 1
    /\ has_tool_call' = FALSE
    /\ detected_tool_call' = FALSE
    /\ current_step' = "GENERATING"
    /\ current_response' = ""
    /\ events' = events \o <<Ev("get_tools_schema", "", "", is_processing)>>
                        \o StepReport("GENERATING", "", is_processing)
                        \o <<Ev("generate", "", "", is_processing)>>
    /\ tokens' = <<>>
    /\ \E r \in Responses : gen' = [script |-> r, last_ret |-> TRUE]
    /\ hist' = [hist EXCEPT !.gen_calls = @ + 1]
    /\ pc' = "generate"
    /\ UNCHANGED <<config, parser, stream, messages, working_history, is_processing, should_stop,
                   thinking_content, tool_calls, result, parse_result, seg_i,
                   text_content>>

\* streaming_token_callback, invoked by the generator with its next chunk;
\* user_ret is what the user's on_token returns if it is called.  The
\* generator stops streaming once the callback has returned false.
streaming_token_callback ==
    /\ pc = "generate"
    /\ gen.script # <<>>
    /\ gen.last_ret
    /\ \E user_ret \in BOOLEAN :
         LET token == Head(gen.script)
             appended == current_response \o token
             detect == detects_tool_call(detected_tool_call, appended)
             detected == detected_tool_call \/ detect
             forward == forwards_token(detected, config.on_token)
             ret == IF forward THEN user_ret ELSE TRUE
         IN IF should_stop
            THEN /\ gen' = [script |-> Tail(gen.script), last_ret |-> FALSE]
                 /\ tokens' = Append(tokens,
                        [chunk |-> token, stop_on_entry |-> TRUE, forwarded |-> FALSE,
                         user_ret |-> TRUE, ret |-> FALSE, thinking |-> FALSE,
                         acc |-> current_response])
                 /\ UNCHANGED <<current_response, detected_tool_call, current_step,
                                events>>
            ELSE /\ (~forward => user_ret)
                 /\ current_response' = appended
                 /\ detected_tool_call' = detected
                 /\ current_step' = IF detect THEN "THINKING" ELSE current_step
                 /\ events' = events
                        \o (IF detect THEN StepReport("THINKING", "", is_processing) ELSE <<>>)
                        \o (IF forward THEN <<Ev("on_token", "", token, is_processing)>>
                            ELSE <<>>)
                 /\ gen' = [script |-> Tail(gen.script), last_ret |-> ret]
                 /\ tokens' = Append(tokens,
                        [chunk |-> token, stop_on_entry |-> FALSE, forwarded |-> forward,
                         user_ret |-> user_ret, ret |-> ret, thinking |-> detect,
                         acc |-> appended])
    /\ UNCHANGED <<config, parser, stream, messages, working_history, iteration_count, is_processing,
                   should_stop, thinking_content, pc, tool_calls, has_tool_call,
                   result, parse_result, seg_i, text_content>>
    /\ hist' = [hist EXCEPT !.stop_before = FALSE]

\* The generator returns from generate: process_iteration checks the error
\* and should_stop, then parses the accumulated response.  A generator
\* returns OK once its chunks are streamed or once the callback asked it to
\* stop; it may fail at any point.
GenerateReturn ==
    /\ pc = "generate"
    /\ \E e \in {AGENT_OK} \cup GenErrors :
         /\ (e = AGENT_OK => (gen.script = <<>> \/ ~gen.last_ret))
         /\ hist' = [hist EXCEPT
                       !.responses = IF e = AGENT_OK THEN Append(@, current_response) ELSE @,
                       !.gen_error = e,
                       !.stop_before = FALSE]
         /\ IF e # AGENT_OK
            THEN /\ result' = [result EXCEPT !.error = e]
                 /\ pc' = "after_loop"
                 /\ UNCHANGED <<parse_result, seg_i, text_content>>
            ELSE IF should_stop
            THEN /\ result' = [result EXCEPT !.error = AGENT_ERROR_CANCELLED]
                 /\ pc' = "after_loop"
                 /\ UNCHANGED <<parse_result, seg_i, text_content>>
            ELSE /\ parse_result' = agent_parser_parse(current_response)
                 /\ seg_i' = 1
                 /\ text_content' = ""
                 /\ pc' = "segments"
                 /\ UNCHANGED result
    /\ gen' = [script |-> <<>>, last_ret |-> TRUE]
    /\ detected_tool_call' = FALSE
    /\ tokens' = <<>>
    /\ UNCHANGED <<config, parser, stream, messages, working_history, current_step, iteration_count,
                   is_processing, should_stop, current_response, thinking_content,
                   tool_calls, has_tool_call, events>>

\* One pass of the segment loop of process_iteration for a text or thinking
\* segment.
ProcessTextSegment ==
    /\ pc = "segments"
    /\ seg_i <= Len(parse_result)
    /\ parse_result[seg_i].type \in {"text", "thinking"}
    /\ IF parse_result[seg_i].type = "text"
       THEN /\ text_content' = append_text_segment(text_content, parse_result[seg_i].text)
            /\ UNCHANGED thinking_content
       ELSE /\ thinking_content' = thinking_content \o parse_result[seg_i].text
            /\ UNCHANGED text_content
    /\ seg_i' = seg_i + 1
    /\ UNCHANGED <<config, parser, stream, messages, working_history, current_step, iteration_count,
                   is_processing, should_stop, current_response, pc, tool_calls,
                   has_tool_call, result, detected_tool_call, parse_result, gen,
                   events, tokens, hist>>

\* A tool-call segment: record the call, then agent_execute_tool up to the
\* call of execute_tool.
ToolCallBegin ==
    /\ pc = "segments"
    /\ seg_i <= Len(parse_result)
    /\ parse_result[seg_i].type = "tool_call"
    /\ has_tool_call' = TRUE
    /\ tool_calls' = Append(tool_calls, [name |-> parse_result[seg_i].name,
                                         arguments |-> parse_result[seg_i].arguments])
    /\ current_step' = "CALLING_TOOL"
    /\ events' = events \o <<Ev("on_tool_call", "", parse_result[seg_i].name, is_processing)>>
                        \o StepReport("CALLING_TOOL", parse_result[seg_i].name, is_processing)
                        \o <<Ev("execute_tool", "", parse_result[seg_i].name, is_processing)>>
    /\ hist' = [hist EXCEPT !.exec_calls = @ + 1]
    /\ pc' = "execute"
    /\ UNCHANGED <<config, parser, stream, messages, working_history, iteration_count, is_processing,
                   should_stop, current_response, thinking_content, result,
                   detected_tool_call, parse_result, seg_i, text_content, gen, tokens>>

\* execute_tool returns: the rest of agent_execute_tool and the tool message.
ExecuteToolReturn ==
    /\ pc = "execute"
    /\ LET exec_result == execute_tool(tool_calls[Len(tool_calls)].name)
           content == IF Len(exec_result.content) > config.max_tool_result_len
                        THEN agent_truncate_text(exec_result.content,
                                                 config.max_tool_result_len)
                        ELSE exec_result.content
           tool_result == tool_result_record(content, exec_result.is_error)
       IN /\ working_history' = message_array_add(working_history,
                  Message("tool", content, <<>>, <<tool_result>>, ""))
          /\ hist' = [hist EXCEPT
                        !.tool_errors = @ + (IF exec_result.is_error THEN 1 ELSE 0)]
    /\ current_step' = "WAITING_FOR_RESULT"
    /\ events' = events \o StepReport("WAITING_FOR_RESULT", "", is_processing)
    /\ seg_i' = seg_i + 1
    /\ pc' = "segments"
    /\ UNCHANGED <<config, parser, stream, messages, iteration_count, is_processing, should_stop,
                   current_response, thinking_content, tool_calls, has_tool_call,
                   result, detected_tool_call, parse_result, text_content, gen, tokens>>

\* End of process_iteration (the assistant message) and the should_stop test
\* that follows it in the main loop.
IterationEnd ==
    /\ pc = "segments"
    /\ seg_i > Len(parse_result)
    /\ working_history' =
         IF pushes_assistant(text_content, has_tool_call)
         THEN message_array_add(working_history,
                     Message("assistant", text_content,
                             IF has_tool_call THEN <<tool_calls[Len(tool_calls)]>> ELSE <<>>,
                             <<>>, thinking_content))
         ELSE working_history
    /\ IF should_stop
       THEN /\ result' = [result EXCEPT !.error = AGENT_ERROR_CANCELLED]
            /\ pc' = "after_loop"
       ELSE /\ pc' = "loop"
            /\ UNCHANGED result
    /\ parse_result' = <<>>
    /\ seg_i' = 0
    /\ text_content' = ""
    /\ UNCHANGED <<config, parser, stream, messages, current_step, iteration_count, is_processing,
                   should_stop, current_response, thinking_content, tool_calls,
                   has_tool_call, detected_tool_call, gen, events, tokens, hist>>

\* The backward search for the last assistant message: its content, or the
\* zero view when there is none.
RECURSIVE last_assistant_content(_, _)
last_assistant_content(history, i) ==
    IF i = 0 THEN ""
    ELSE IF history[i].role = "assistant" THEN history[i].content
    ELSE last_assistant_content(history, i - 1)

\* After the loop: the max-iterations test, the result and the final message.
RunFinish ==
    /\ \/ pc = "after_loop"
       \/ pc = "loop" /\ ~loop_continues(has_tool_call, iteration_count,
                                          config.max_iterations)
    /\ LET error == IF max_iterations_reached(has_tool_call, iteration_count,
                                              config.max_iterations)
                    THEN AGENT_ERROR_MAX_ITERATIONS
                    ELSE result.error
           built == result_built(error)
           response == IF built
                       THEN last_assistant_content(working_history, Len(working_history))
                       ELSE ""
           final == [error |-> error,
                     response |-> response,
                     tool_calls |-> IF built THEN tool_calls ELSE <<>>,
                     tool_calls_count |-> IF built THEN Len(tool_calls) ELSE 0,
                     thinking |-> IF built THEN thinking_content ELSE "",
                     iterations |-> iteration_count]
       IN /\ result' = final
          /\ messages' = IF appends_final(response)
                         THEN message_array_add(messages,
                                     Message("assistant", response, final.tool_calls,
                                             <<>>, final.thinking))
                         ELSE messages
    /\ is_processing' = FALSE
    /\ current_step' = "NONE"
    /\ events' = events \o StepReport("NONE", "", FALSE)
    /\ pc' = "idle"
    /\ tool_calls' = <<>>
    /\ has_tool_call' = FALSE
    /\ UNCHANGED <<config, parser, stream, working_history, iteration_count, should_stop,
                   current_response, thinking_content, detected_tool_call,
                   parse_result, seg_i, text_content, gen, tokens, hist>>

Next ==
    \/ agent_add_user_message
    \/ agent_stop
    \/ agent_reset
    \/ agent_run_streaming
    \/ IterationBegin
    \/ streaming_token_callback
    \/ GenerateReturn
    \/ ProcessTextSegment
    \/ ToolCallBegin
    \/ ExecuteToolReturn
    \/ IterationEnd
    \/ RunFinish

Spec == Init /\ [][Next]_vars

\* The same agent and host, the host making one run more.
InitRuns ==
    /\ \E max \in 1..MaxIterationsCfg, callbacks \in BOOLEAN :
         agent_init([max_iterations |-> max,
                     max_tool_result_len |-> MaxToolResultLen,
                     on_token |-> callbacks,
                     on_step_change |-> callbacks])
    /\ stream = [NoStream EXCEPT !.arg = 1]

SpecRuns == InitRuns /\ [][Next]_vars

(***************************************************************************)
(* agent_stop called from another thread than the one inside agent_run.    *)
(* should_stop is a plain bool (agent_orchestrator.h:74) written by        *)
(* agent_stop and read by the run with no synchronisation between them:    *)
(* the run's thread sees the store at once or at some later moment.        *)
(* stream.extra tells where the store stands and stream.mark the iteration *)
(* that was in progress when agent_stop returned (0: none was).            *)
(***************************************************************************)

IterationInProgress == pc \in {"generate", "segments", "execute"}

\* agent_stop on the caller's thread; at_once: the store is visible to the
\* run's thread before its next read of the flag.
agent_stop_concurrent ==
    /\ stream.extra = "none"
    /\ pc # "idle"
    /\ \E at_once \in BOOLEAN :
          /\ should_stop' = (should_stop \/ at_once)
          /\ stream' = [stream EXCEPT
                           !.extra = IF at_once THEN "seen at once" ELSE "issued",
                           !.mark = IF IterationInProgress THEN iteration_count ELSE 0]
    /\ hist' = [hist EXCEPT
                  !.stop_in_flight = @ \/ pc \in {"generate", "execute"},
                  !.stop_any = TRUE]
    /\ UNCHANGED <<config, parser, messages, working_history, current_step, iteration_count,
                   is_processing, current_response, thinking_content, pc,
                   tool_calls, has_tool_call, result, detected_tool_call,
                   parse_result, seg_i, text_content, gen, events, tokens>>

\* The store of agent_stop becomes visible to the run's thread.
StopObserved ==
    /\ stream.extra = "issued"
    /\ should_stop' = TRUE
    /\ stream' = [stream EXCEPT !.extra = "seen later"]
    /\ UNCHANGED <<config, parser, messages, working_history, current_step, iteration_count,
                   is_processing, current_response, thinking_content, pc,
                   tool_calls, has_tool_call, result, detected_tool_call,
                   parse_result, seg_i, text_content, gen, events, tokens, hist>>

NextStop ==
    \/ agent_add_user_message
    \/ agent_run_streaming
    \/ IterationBegin
    \/ streaming_token_callback
    \/ GenerateReturn
    \/ ProcessTextSegment
    \/ ToolCallBegin
    \/ ExecuteToolReturn
    \/ IterationEnd
    \/ RunFinish
    \/ agent_stop_concurrent
    \/ StopObserved

SpecStop == Init /\ [][NextStop]_vars

(***************************************************************************)
(* agent_run called again from inside a callback of a run on the same      *)
(* state (generate, the token callback, execute_tool).  stream.ret is what *)
(* the inner call returns.                                                 *)
(***************************************************************************)

\* Variant: the test for a run in progress is left out.
already_processing_never(processing) == FALSE

\* The "Already processing" test at the entry of agent_run_streaming.
already_processing(processing) == processing

\* The entry of agent_run_streaming for the inner call: the early return, or
\* else the assignments that start a run.
agent_run_inside_callback ==
    /\ pc \in {"generate", "execute"}
    /\ stream.last = "init"
    /\ IF already_processing(is_processing)
       THEN /\ stream' = [stream EXCEPT
                             !.last = "inner run",
                             !.ret = [ZeroResult EXCEPT
                                         !.error = AGENT_ERROR_INVALID_ARGUMENT]]
            /\ UNCHANGED <<is_processing, should_stop, iteration_count,
                           thinking_content, working_history>>
       ELSE /\ is_processing' = TRUE
            /\ should_stop' = FALSE
            /\ iteration_count' = 0
            /\ thinking_content' = ""
            /\ working_history' = messages
            /\ stream' = [stream EXCEPT !.last = "inner run", !.ret = ZeroResult]
    /\ UNCHANGED <<config, parser, messages, current_step, current_response, pc,
                   tool_calls, has_tool_call, result, detected_tool_call,
                   parse_result, seg_i, text_content, gen, events, tokens, hist>>

NextInner ==
    \/ agent_add_user_message
    \/ agent_stop
    \/ agent_reset
    \/ agent_run_streaming
    \/ IterationBegin
    \/ streaming_token_callback
    \/ GenerateReturn
    \/ ProcessTextSegment
    \/ ToolCallBegin
    \/ ExecuteToolReturn
    \/ IterationEnd
    \/ RunFinish
    \/ agent_run_inside_callback

SpecInner == Init /\ [][NextInner]_vars

(***************************************************************************)
(* A host streaming one response through the streaming parser             *)
(***************************************************************************)
\* Largest chunk the host cuts from the response, besides "all the rest".
MaxChunk == 3

OneCall == "<tool_call>{\"name\":\"t\"}</tool_call>"

\* Responses streamed through the parser.
StreamInputs ==
    { "Hi " \o OneCall \o " ok",
      "a<b " \o OneCall,
      "<think>x</think>y<",
      "if a<b, c>d <e> x<f",
      "<0123456789abcdefg> z",
      "<a" \o NUL \o "b>c",
      "<thinking>q</thinking>" \o OneCall,
      "no <tool_call>{\"name\"" }

agent_vars ==
    <<config, messages, working_history, current_step, iteration_count,
      is_processing, should_stop, current_response, thinking_content, pc,
      tool_calls, has_tool_call, result, detected_tool_call, parse_result,
      seg_i, text_content, gen, events, tokens, hist>>

\* The callbacks received so far followed by those of one more call;
\* consecutive on_text payloads are kept concatenated.
RECURSIVE Received(_, _)
Received(out, new) ==
    IF new = <<>> THEN out
    ELSE IF /\ out # <<>>
            /\ out[Len(out)].kind = "on_text"
            /\ Head(new).kind = "on_text"
    THEN Received([out EXCEPT ![Len(out)].text = @ \o Head(new).text], Tail(new))
    ELSE Received(Append(out, Head(new)), Tail(new))

InitStreaming ==
    /\ agent_init([max_iterations |-> AGENT_MAX_ITERATIONS,
                   max_tool_result_len |-> MaxToolResultLen,
                   on_token |-> FALSE,
                   on_step_change |-> FALSE])
    /\ \E r \in StreamInputs : stream = [NoStream EXCEPT !.input = r]

\* The host feeds the next chunk: up to MaxChunk bytes, or all the rest.
StreamFeed ==
    /\ stream.pos < Len(stream.input)
    /\ \E k \in (1..MaxChunk) \cup {Len(stream.input) - stream.pos} :
         /\ stream.pos + k <= Len(stream.input)
         /\ With(agent_streaming_parser_feed(parser, Sub(stream.input, stream.pos, k)),
                 LAMBDA r :
                   /\ parser' = r.parser
                   /\ stream' = [stream EXCEPT !.pos = @ + k,
                                               !.out = Received(@, r.out),
                                               !.steps = r.steps,
                                               !.last = "feed",
                                               !.before = parser])
    /\ UNCHANGED agent_vars

\* The host flushes: at the end of the response, or once before it.
StreamFlush ==
    /\ stream.last # "flush"
    /\ stream.pos < Len(stream.input) => stream.extra = "none"
    /\ With(agent_streaming_parser_flush(parser), LAMBDA r :
              /\ parser' = r.parser
              /\ stream' = [stream EXCEPT
                              !.out = Received(@, r.out),
                              !.steps = <<>>,
                              !.last = "flush",
                              !.mark = IF stream.pos < Len(stream.input)
                                       THEN stream.pos ELSE @,
                              !.extra = IF stream.pos < Len(stream.input)
                                        THEN "flush" ELSE @])
    /\ UNCHANGED agent_vars

\* The host resets the parser, once, anywhere in the stream.
StreamReset ==
    /\ stream.extra = "none"
    /\ stream.last = "feed"
    /\ parser' = agent_streaming_parser_reset(parser)
    /\ stream' = [stream EXCEPT !.steps = <<>>, !.last = "reset",
                                !.mark = stream.pos, !.extra = "reset"]
    /\ UNCHANGED agent_vars

NextStreaming ==
    \/ StreamFeed
    \/ StreamFlush
    \/ StreamReset

SpecStreaming == InitStreaming /\ [][NextStreaming]_vars

(***************************************************************************)
(* A host handing one whole response to agent_parser_parse                 *)
(***************************************************************************)
ObjectX1 == agent_json_object_set_n(agent_json_object, "x", agent_json_int(1))

\* Bare JSON tool calls: the text, and the name and arguments it denotes.
BareCalls ==
    { [text |-> "{\"name\":\"t\",\"arguments\":{\"x\":1}}",
       name |-> "t", arguments |-> ObjectX1],
      [text |-> "{ \"name\" : \"get\", \"arguments\" : {} }",
       name |-> "get", arguments |-> agent_json_object],
      [text |-> "{\"arguments\":{\"x\":1},\"name\":\"u\"}",
       name |-> "u", arguments |-> ObjectX1],
      [text |-> "{\"id\":7,\"name\":\"v\",\"arguments\":{}}",
       name |-> "v", arguments |-> agent_json_object] }

\* Plain text around a bare call, without the literal "name".
PlainPrefixes == {"", "prefix ", "  see {this}:\n"}
PlainSuffixes == {"", " suffix", "\n} done  "}

\* Text that holds the literal "name" ahead of the call.
NamedPrefixes == {"the \"name\" key: ", "{\"id\":1,\"name\":\"n\"} then "}

\* What precedes an unterminated <tool_call>, with the segments it denotes.
Preceding ==
    { [text |-> "", segs |-> <<>>],
      [text |-> " Hi ", segs |-> <<TextSeg("Hi")>>],
      [text |-> "a " \o OneCall \o " b\n",
       segs |-> <<TextSeg("a"), ToolCallSeg("t", agent_json_object), TextSeg("b")>>] }

\* What follows an unterminated <tool_call>.
Dropped ==
    { "", "{\"name\"", " {\"name\":\"late\",\"arguments\":{}} Z",
      "{\"name\":\"late\"} <tool_call> Z" }

\* Responses with thinking blocks and whitespace.
ThinkingInputs ==
    { "<think>x</think>", "a <think>x</think>", "<think>x</think> b ",
      "<thinking> y </thinking>", "  Hello  ", "  \n ", "<think> </think>",
      "x</think>", "</think> z", OneCall \o "<think>r</think>",
      "<think>r</think>" \o OneCall }

\* The parts of a response with one thinking block: the tag pair, the
\* reasoning X between the tags, the answer Y after them, and texts without
\* a complete block.
ThinkingParts ==
    [frames |-> { [open |-> TAG_THINK_OPEN, close |-> TAG_THINK_CLOSE],
                  [open |-> TAG_THINKING_OPEN, close |-> TAG_THINKING_CLOSE] },
     X |-> {"reason", " r s\n", "\n\n"},
     Y |-> {"answer", "\n\n b c ", ""},
     unframed |-> {"<think>open only", "no tags at all ", "a <thinking> b"}]

\* Responses whose texts, thinking and tool names are all different words,
\* so that a segment tells where in the response it comes from.
OrderInputs ==
    { "aa <tool_call>{\"name\":\"t1\"}</tool_call> bb <tool_call>{\"name\":\"t2\"}</tool_call> cc",
      "aa {\"name\":\"t1\",\"arguments\":{}} bb",
      "<think>xx</think>aa <tool_call>{\"name\":\"t1\"}</tool_call>bb",
      "<tool_call>{\"name\":\"t1\"}</tool_call><thinking>xx</thinking>aa",
      "aa <tool_call>{\"name\":\"t1\"}</tool_call> xx</think> bb",
      "aa <think>xx</think> bb",
      "aa <thinking>xx</thinking><tool_call>{\"name\":\"t1\"}</tool_call>" }

\* What a <tool_call> block may enclose, and the call it denotes (NULL for
\* none): the cases of test_parse_tool_call_json_invalid and their kin.
TagBodies ==
    { [json |-> "{\"name\":\"t1\",\"arguments\":{\"x\":1}}", lacks |-> "nothing",
       call |-> ToolCallSeg("t1", ObjectX1)],
      [json |-> " {\"arguments\":[],\"name\":\"t1\"}\n", lacks |-> "nothing",
       call |-> ToolCallSeg("t1", agent_json_array)],
      [json |-> "{\"name\":\"t1\"}", lacks |-> "arguments",
       call |-> ToolCallSeg("t1", agent_json_object)],
      [json |-> "{\"arguments\": {}}", lacks |-> "name", call |-> NULL],
      [json |-> "{\"name\":7,\"arguments\":{}}", lacks |-> "name", call |-> NULL],
      [json |-> "{\"name\":null}", lacks |-> "name", call |-> NULL],
      [json |-> "{invalid}", lacks |-> "json", call |-> NULL],
      [json |-> "{\"name\":\"t1\",}", lacks |-> "json", call |-> NULL],
      [json |-> "{\"name\":\"t1\",\"arguments\":{}}x", lacks |-> "json", call |-> NULL],
      [json |-> "", lacks |-> "json", call |-> NULL],
      [json |-> "[]", lacks |-> "object", call |-> NULL],
      [json |-> "\"name\"", lacks |-> "object", call |-> NULL],
      [json |-> "[{\"name\":\"t1\"}]", lacks |-> "object", call |-> NULL] }

\* What follows the closing tag of such a block, with the segments it denotes.
TagFollowers ==
    { [text |-> "", segs |-> <<>>],
      [text |-> " bb", segs |-> <<TextSeg("bb")>>],
      [text |-> "<tool_call>{\"name\":\"t2\"}</tool_call>",
       segs |-> <<ToolCallSeg("t2", agent_json_object)>>] }

TaggedInput(b, f) == TAG_TOOL_CALL_OPEN \o b.json \o TAG_TOOL_CALL_CLOSE \o f.text

ParseInputs ==
    { TaggedInput(b, f) : b \in TagBodies, f \in TagFollowers } \cup
    { p \o j.text \o s : p \in PlainPrefixes \cup NamedPrefixes,
                         j \in BareCalls, s \in PlainSuffixes }
    \cup { x.text \o TAG_TOOL_CALL_OPEN \o y : x \in Preceding, y \in Dropped }
    \cup ThinkingInputs
    \cup { f.open \o x \o f.close \o y :
               f \in ThinkingParts.frames, x \in ThinkingParts.X, y \in ThinkingParts.Y }
    \cup { x \o f.close \o y :
               f \in ThinkingParts.frames, x \in ThinkingParts.X, y \in ThinkingParts.Y }
    \cup ThinkingParts.unframed
    \cup OrderInputs

InitParse ==
    /\ agent_init([max_iterations |-> AGENT_MAX_ITERATIONS,
                   max_tool_result_len |-> MaxToolResultLen,
                   on_token |-> FALSE,
                   on_step_change |-> FALSE])
    /\ \E r \in ParseInputs : stream = [NoStream EXCEPT !.input = r]

\* The host parses the whole response.
ParseResponse ==
    /\ stream.last = "init"
    /\ stream' = [stream EXCEPT !.parsed = agent_parser_parse(stream.input),
                                !.bare = agent_parser_find_bare_json(stream.input),
                                !.last = "parse"]
    /\ UNCHANGED <<agent_vars, parser>>

NextParse == ParseResponse

SpecParse == InitParse /\ [][NextParse]_vars

(***************************************************************************)
(* JSON serialisation (agent_json.c)                                        *)
(***************************************************************************)

\* "%lld" for the integers of the model.
RECURSIVE format_digits(_)
format_digits(n) ==
    IF n < 10 THEN Sub("0123456789", n, 1)
    ELSE format_digits(n \div 10) \o Sub("0123456789", n % 10, 1)

format_lld(i) == IF i < 0 THEN "-" \o format_digits(0 - i) ELSE format_digits(i)

\* Variant: only the backslash is escaped.
serialize_escape_backslash_only(c, code) ==
    CASE c = "\\" -> "\\\\"
      [] OTHER -> c

\* One pass of the loop of serialize_string: what is appended for the byte
\* c of value code; "\\u%04x" for the other bytes below 0x20.
serialize_escape(c, code) ==
    CASE c = "\"" -> "\\\""
      [] c = "\\" -> "\\\\"
      [] code = 8 -> "\\b"
      [] c = "\f" -> "\\f"
      [] c = "\n" -> "\\n"
      [] c = "\r" -> "\\r"
      [] c = "\t" -> "\\t"
      [] OTHER -> IF code < 32
                  THEN "\\u00" \o Sub("0123456789abcdef", code \div 16, 1)
                                \o Sub("0123456789abcdef", code % 16, 1)
                  ELSE c

RECURSIVE serialize_bytes(_, _)
serialize_bytes(str, i) ==
    IF i >= Len(str) THEN ""
    ELSE serialize_escape(At(str, i), byte_value[At(str, i)])
            \o serialize_bytes(str, i + 1)

serialize_string(str) == "\"" \o serialize_bytes(str, 0) \o "\""

RECURSIVE serialize_indent(_)
serialize_indent(depth) == IF depth <= 0 THEN "" ELSE "  " \o serialize_indent(depth - 1)

RECURSIVE serialize_value(_, _, _)
RECURSIVE serialize_array(_, _, _, _)
RECURSIVE serialize_object(_, _, _, _)

\* The for loop of serialize_array from item i on.
serialize_array(array, pretty, depth, i) ==
    IF i > Len(array.items) THEN ""
    ELSE (IF pretty THEN serialize_indent(depth + 1) ELSE "")
         \o serialize_value(array.items[i], pretty, depth + 1)
         \o (IF i < Len(array.items) THEN "," ELSE "")
         \o (IF pretty THEN "\n" ELSE "")
         \o serialize_array(array, pretty, depth, i + 1)

\* The for loop of serialize_object from entry i on.
serialize_object(object, pretty, depth, i) ==
    IF i > Len(object.entries) THEN ""
    ELSE (IF pretty THEN serialize_indent(depth + 1) ELSE "")
         \o serialize_string(object.entries[i].key)
         \o ":"
         \o (IF pretty THEN " " ELSE "")
         \o serialize_value(object.entries[i].value, pretty, depth + 1)
         \o (IF i < Len(object.entries) THEN "," ELSE "")
         \o (IF pretty THEN "\n" ELSE "")
         \o serialize_object(object, pretty, depth, i + 1)

\* serialize_value for every tag but AGENT_JSON_DOUBLE, whose "%.15g" the
\* documents of this model do not need.
serialize_value(value, pretty, depth) ==
    CASE value = NULL -> "null"
      [] value.type = "null" -> "null"
      [] value.type = "bool" -> IF value.bool_value THEN "true" ELSE "false"
      [] value.type = "int" -> format_lld(value.int_value)
      [] value.type = "string" -> serialize_string(value.string_value)
      [] value.type = "array" ->
            IF Len(value.items) = 0 THEN "[]"
            ELSE "[" \o (IF pretty THEN "\n" ELSE "")
                     \o serialize_array(value, pretty, depth, 1)
                     \o (IF pretty THEN serialize_indent(depth) ELSE "") \o "]"
      [] value.type = "object" ->
            IF Len(value.entries) = 0 THEN "{}"
            ELSE "{" \o (IF pretty THEN "\n" ELSE "")
                     \o serialize_object(value, pretty, depth, 1)
                     \o (IF pretty THEN serialize_indent(depth) ELSE "") \o "}"

agent_json_serialize(value, pretty) == serialize_value(value, pretty, 0)

(***************************************************************************)
(* Arena allocator (agent_context.c)                                       *)
(***************************************************************************)
\* A size_t is written as the integer nearest to 0 that equals it modulo
\* 2^64: -8 is SIZE_MAX - 7.  Sums and differences of such integers are the
\* sums and differences modulo 2^64 as long as they stay near 0 or 2^64,
\* which the sizes below ensure.
DEFAULT_ARENA_SIZE == 65536
ALIGNMENT == 8
SIZEOF_ARENA_BLOCK == 24

\* a > b on size_t.
size_gt(a, b) == IF (a < 0) = (b < 0) THEN a > b ELSE a < 0

\* align_size: (size + ALIGNMENT - 1) & ~(ALIGNMENT - 1).
align_size(size) == ((size + ALIGNMENT - 1) \div ALIGNMENT) * ALIGNMENT

\* arena_block_create: NULL when malloc refuses the size; heap_overflow when
\* sizeof(arena_block_t) + block_size wraps to less than the header, which
\* the three stores to the block then overrun.
arena_block_create(min_size) ==
    LET block_size == IF size_gt(min_size, DEFAULT_ARENA_SIZE) THEN min_size
                      ELSE DEFAULT_ARENA_SIZE
        malloc_size == SIZEOF_ARENA_BLOCK + block_size
    IN IF malloc_size < 0 THEN NULL
       ELSE [size |-> block_size, used |-> 0,
             heap_overflow |-> malloc_size < SIZEOF_ARENA_BLOCK]

agent_context_create(initial_size) ==
    LET block_size == IF initial_size > 0 THEN initial_size ELSE DEFAULT_ARENA_SIZE
    IN [blocks |-> <<arena_block_create(block_size)>>,
        current_block |-> 1,
        default_block_size |-> block_size,
        total_allocated |-> SIZEOF_ARENA_BLOCK + block_size,
        status |-> "ok"]

\* What agent_context_alloc gives back: the arena, and ptr, NULL or the
\* block and the offset in its data.
Allocated(ctx, ptr) == [ctx |-> ctx, ptr |-> ptr]

\* block->used += aligned_size.
arena_bump(block, aligned_size) ==
    [block EXCEPT !.used = block.used + aligned_size]

agent_context_alloc(ctx, size) ==
    IF size = 0 THEN Allocated(ctx, NULL)
    ELSE LET aligned_size == align_size(size)
             block == ctx.blocks[ctx.current_block]
         IN IF size_gt(block.used + aligned_size, block.size)
            THEN LET new_block_size ==
                         IF size_gt(aligned_size, ctx.default_block_size)
                         THEN aligned_size ELSE ctx.default_block_size
                     new_block == arena_block_create(new_block_size)
                 IN IF new_block = NULL THEN Allocated(ctx, NULL)
                    ELSE Allocated(
                           [ctx EXCEPT !.blocks = Append(ctx.blocks,
                                                    arena_bump(new_block, aligned_size)),
                                       !.current_block = Len(ctx.blocks) + 1,
                                       !.total_allocated =
                                           @ + SIZEOF_ARENA_BLOCK + new_block_size,
                                       !.status = IF new_block.heap_overflow
                                                  THEN "heap_overflow" ELSE ctx.status],
                           [block |-> Len(ctx.blocks) + 1, off |-> 0])
            ELSE Allocated(
                   [ctx EXCEPT !.blocks[ctx.current_block] = arena_bump(block, aligned_size)],
                   [block |-> ctx.current_block, off |-> block.used])

agent_context_calloc(ctx, count, size) == agent_context_alloc(ctx, count * size)

agent_context_strndup(ctx, len) == agent_context_alloc(ctx, len + 1)

\* The while loop of agent_context_reset over the blocks after the first:
\* total_allocated once each of them is freed.
RECURSIVE reset_free(_, _, _)
reset_free(blocks, i, total_allocated) ==
    IF i > Len(blocks) THEN total_allocated
    ELSE reset_free(blocks, i + 1,
                    total_allocated - (SIZEOF_ARENA_BLOCK + blocks[i].size))

agent_context_reset(ctx) ==
    [ctx EXCEPT !.total_allocated = reset_free(ctx.blocks, 2, ctx.total_allocated),
                !.blocks = <<[ctx.blocks[1] EXCEPT !.used = 0]>>,
                !.current_block = 1]

agent_context_capacity(ctx) == ctx.total_allocated

agent_context_savepoint(ctx) == ctx.blocks[ctx.current_block].used

agent_context_restore(ctx, savepoint) ==
    IF ctx.current_block = 1 /\ ~size_gt(savepoint, ctx.blocks[1].size)
    THEN [ctx EXCEPT !.blocks[1].used = savepoint]
    ELSE ctx

(***************************************************************************)
(* A host allocating from one arena                                        *)
(***************************************************************************)
MaxAllocs == 3
MaxSavepoints == 2

\* Requested sizes: small ones, ones that fill a block, one larger than a
\* block, and SIZE_MAX - 7.
AllocSizes == {8, 40000, 70000, -8}

\* What the host remembers: the allocations issued (block, offset, bytes
\* asked for), the savepoints taken and whether only allocations within
\* the block came after each, the number of allocating calls.
NoLedger == [issued |-> {}, saved |-> {}, n |-> 0, sp |-> 0, plain |-> FALSE]

InitArena ==
    /\ agent_init([max_iterations |-> AGENT_MAX_ITERATIONS,
                   max_tool_result_len |-> MaxToolResultLen,
                   on_token |-> FALSE,
                   on_step_change |-> FALSE])
    /\ \E initial_size \in {0, 16} :
          stream = [NoStream EXCEPT !.ctx = agent_context_create(initial_size),
                                    !.ret = NoLedger]

\* The host takes note of an allocating call that asked for size bytes.
\* Stores past a block whose malloc was too small are undefined: the
\* process faults, or goes on with a damaged heap; neither is followed
\* further.
Issue(r, size, op) ==
    \E status \in IF r.ctx.status = "heap_overflow" THEN {"fault", "damaged"} ELSE {"ok"} :
       stream' = [stream EXCEPT
          !.ctx = [r.ctx EXCEPT !.status = status],
          !.last = op,
          !.ret = [stream.ret EXCEPT
             !.n = stream.ret.n + 1,
             !.issued = IF r.ptr = NULL THEN stream.ret.issued
                        ELSE stream.ret.issued
                               \cup {[block |-> r.ptr.block, off |-> r.ptr.off,
                                      size |-> size, n |-> stream.ret.n + 1]},
             !.saved = IF r.ctx.current_block = stream.ctx.current_block
                       THEN stream.ret.saved
                       ELSE {[e EXCEPT !.plain = FALSE] : e \in stream.ret.saved}]]

ArenaReady == stream.ctx.status = "ok" /\ stream.ret.n < MaxAllocs

ArenaAlloc ==
    /\ ArenaReady
    /\ \E size \in AllocSizes : Issue(agent_context_alloc(stream.ctx, size), size, "alloc")
    /\ UNCHANGED <<agent_vars, parser>>

ArenaCalloc ==
    /\ ArenaReady
    /\ \E count \in {0, 1, 3}, size \in {8, 20000} :
          Issue(agent_context_calloc(stream.ctx, count, size), count * size, "calloc")
    /\ UNCHANGED <<agent_vars, parser>>

ArenaStrndup ==
    /\ ArenaReady
    /\ \E len \in {0, 7, 65535} :
          Issue(agent_context_strndup(stream.ctx, len), len + 1, "strndup")
    /\ UNCHANGED <<agent_vars, parser>>

ArenaSavepoint ==
    /\ stream.ctx.status = "ok"
    /\ Cardinality(stream.ret.saved) < MaxSavepoints
    /\ stream' = [stream EXCEPT
          !.last = "savepoint",
          !.ret.saved = stream.ret.saved
                           \cup {[sp |-> agent_context_savepoint(stream.ctx),
                                  block |-> stream.ctx.current_block,
                                  plain |-> TRUE]}]
    /\ UNCHANGED <<agent_vars, parser>>

ArenaRestore ==
    /\ stream.ctx.status = "ok"
    /\ \E e \in stream.ret.saved :
          stream' = [stream EXCEPT
             !.ctx = agent_context_restore(stream.ctx, e.sp),
             !.last = "restore",
             !.ret = [stream.ret EXCEPT
                         !.sp = e.sp, !.plain = e.plain,
                         !.saved = {[x EXCEPT !.plain = FALSE] : x \in stream.ret.saved}]]
    /\ UNCHANGED <<agent_vars, parser>>

NextArena ==
    \/ ArenaAlloc
    \/ ArenaCalloc
    \/ ArenaStrndup
    \/ ArenaSavepoint
    \/ ArenaRestore

SpecArena == InitArena /\ [][NextArena]_vars

(***************************************************************************)
(* A host that allocates from an arena and resets it                       *)
(***************************************************************************)
\* initial_size: the default, a size below DEFAULT_ARENA_SIZE, one above.
InitialSizes == {0, 16, 70000}

\* The host creates the arena and notes its capacity.
InitCapacity ==
    /\ agent_init([max_iterations |-> AGENT_MAX_ITERATIONS,
                   max_tool_result_len |-> MaxToolResultLen,
                   on_token |-> FALSE,
                   on_step_change |-> FALSE])
    /\ \E initial_size \in InitialSizes :
          With(agent_context_create(initial_size), LAMBDA ctx :
             stream = [NoStream EXCEPT !.ctx = ctx,
                                       !.ret = NoLedger,
                                       !.arg = initial_size,
                                       !.mark = agent_context_capacity(ctx)])

\* agent_context_reset: every allocation and savepoint of the host is gone.
ArenaReset ==
    /\ stream.ctx.status = "ok"
    /\ stream.last \notin {"init", "reset"}
    /\ stream' = [stream EXCEPT
          !.ctx = agent_context_reset(stream.ctx),
          !.last = "reset",
          !.ret = [stream.ret EXCEPT !.issued = {}, !.saved = {}]]
    /\ UNCHANGED <<agent_vars, parser>>

NextCapacity ==
    \/ ArenaAlloc
    \/ ArenaCalloc
    \/ ArenaStrndup
    \/ ArenaReset

SpecCapacity == InitCapacity /\ [][NextCapacity]_vars

(***************************************************************************)
(* A host calling the UTF-8 and truncation utilities on one buffer         *)
(***************************************************************************)
MaxLenArg == 7

\* Buffers: ASCII, well-formed sequences of two, three and four bytes, and
\* malformed ones (a stray continuation byte, a lead byte without its
\* continuation, the byte 0xFF, a surrogate, a code point above U+10FFFF,
\* a sequence cut short, an overlong form).
ByteInputs ==
    { "abcdefgh",
      "aÃ©b",
      "abã¡¡c",
      "ð¡¡¡z",
      "abÃ©cdã¡¡",
      "©bcd",
      "Ãabc",
      "aÿbc",
      "í¡¡x",
      "ô¡¡¡",
      "abcã¡",
      "Á¡ab" }

InitBytes ==
    /\ agent_init([max_iterations |-> AGENT_MAX_ITERATIONS,
                   max_tool_result_len |-> MaxToolResultLen,
                   on_token |-> FALSE,
                   on_step_change |-> FALSE])
    /\ \E s \in ByteInputs : stream = [NoStream EXCEPT !.input = s]

Returned(status, size, text) == [status |-> status, size |-> size, text |-> text]

\* agent_utf8_complete_boundary(s, k) for some k <= len(s).
CompleteBoundary ==
    /\ stream.last = "init"
    /\ \E k \in 0..Len(stream.input) :
          stream' = [stream EXCEPT
                        !.last = "boundary", !.arg = k,
                        !.ret = Returned("ok", agent_utf8_complete_boundary(stream.input, k), "")]
    /\ UNCHANGED <<agent_vars, parser>>

\* max_len - 3 in size_t wraps below 3: the boundary scan is then given a
\* length beyond the end of the text.
truncate_reads_past_end(text, max_len) == Len(text) > max_len /\ max_len < 3

\* agent_truncate_text(ctx, text, max_len).  Where the scan reads past the
\* end of the text the call either faults or, if the scan ends, fails to
\* allocate and returns NULL.
TruncateText ==
    /\ stream.last = "init"
    /\ \E max_len \in 0..MaxLenArg :
          \E r \in IF truncate_reads_past_end(stream.input, max_len)
                   THEN {Returned("fault", 0, ""), Returned("null", 0, "")}
                   ELSE {With(agent_truncate_text(stream.input, max_len),
                              LAMBDA t : Returned("ok", Len(t), t))} :
             stream' = [stream EXCEPT !.last = "truncate", !.arg = max_len, !.ret = r]
    /\ UNCHANGED <<agent_vars, parser>>

NextBytes ==
    \/ CompleteBoundary
    \/ TruncateText

SpecBytes == InitBytes /\ [][NextBytes]_vars

(***************************************************************************)
(* JSON values: parse, serialise and parse again; objects built by         *)
(* agent_json_object_set (agent_json.c, tests/test_json.c)                 *)
(***************************************************************************)

MaxSets == 4

\* Documents handed to agent_json_parse: every tag but double, strings with
\* each escape the parser knows and with control characters, nesting,
\* repeated keys, surrounding whitespace, and three malformed documents.
\* Strings with a \u escape that lacks four hexadecimal digits: the bytes
\* before it, the bytes of the escape in the source, the bytes after it.
MalformedEscapes ==
    { [pre |-> "a", esc |-> "\\u12", post |-> ""],
      [pre |-> "", esc |-> "\\u00g1", post |-> " z"],
      [pre |-> "x", esc |-> "\\u", post |-> ""],
      [pre |-> "", esc |-> "\\uZZZZ", post |-> "!"] }

EscapeDoc(m) == "\"" \o m.pre \o m.esc \o m.post \o "\""

JsonDocs ==
    { "null", "true", "false", "0", "-12", "42", " 7 ",
      "\"\"", "\"plain text\"",
      "\"q\\\"b\\\\s\\/\"",
      "\"\\b\\f\\n\\r\\t\"",
      "\"\\u0000\\u0001x\\u001f\\u001B\"",
      "\"\\u00e9\\u3042\\ud83d\"",
      "\"raw\ttab\"",
      "\"\\x\\u12\"",
      "[]", "{}",
      "[1,[2,\"x\\n\"],null,{}]",
      " [ true , false ] ",
      "{\"a\":0}",
      "{\"b\":{\"a\":[true,\"\\u0007\"]},\"a\\tk\":\"q\\\"\"}",
      "{\"a\":1,\"b\":2,\"a\":3}",
      "{\"a\":}", "[1,", "\"open" }
    \cup { EscapeDoc(m) : m \in MalformedEscapes }

SetKeys == {"a", "b", "ab"}

SetValues == {agent_json_int(1), agent_json_string_n("s")}

InitJson ==
    /\ agent_init([max_iterations |-> AGENT_MAX_ITERATIONS,
                   max_tool_result_len |-> MaxToolResultLen,
                   on_token |-> FALSE,
                   on_step_change |-> FALSE])
    /\ \E d \in JsonDocs : stream = [NoStream EXCEPT !.input = d]

\* agent_json_parse(ctx, json).
JsonParse ==
    /\ stream.last = "init"
    /\ stream' = [stream EXCEPT !.last = "parse",
                                !.parsed = agent_json_parse(stream.input)]
    /\ UNCHANGED <<agent_vars, parser>>

\* agent_json_to_string(ctx, value, pretty) of a parsed value, and
\* agent_json_parse of the text it returns.
JsonRoundTrip ==
    /\ stream.last = "parse"
    /\ ~stream.parsed.error
    /\ \E pretty \in BOOLEAN :
          With(agent_json_serialize(stream.parsed.value, pretty), LAMBDA text :
              stream' = [stream EXCEPT
                            !.last = "roundtrip", !.arg = IF pretty THEN 1 ELSE 0,
                            !.ret = [text |-> text, back |-> agent_json_parse(text)]])
    /\ UNCHANGED <<agent_vars, parser>>

\* agent_json_object(ctx, 0): an object with no entries, and no set so far.
JsonObject ==
    /\ stream.last = "init"
    /\ stream' = [stream EXCEPT !.last = "object",
                                !.ret = [value |-> agent_json_object, log |-> <<>>,
                                         err |-> "AGENT_OK"]]
    /\ UNCHANGED <<agent_vars, parser>>

\* agent_json_object_set(ctx, obj, key, value); log keeps the calls that
\* returned AGENT_OK, in order.
ObjectSet ==
    /\ stream.last \in {"object", "set"}
    /\ Len(stream.ret.log) < MaxSets
    /\ \E key \in SetKeys, value \in SetValues \cup {NULL} :
          With(agent_json_object_set(stream.ret.value, key, value), LAMBDA r :
              stream' = [stream EXCEPT
                            !.last = "set",
                            !.ret = [value |-> r.object,
                                     log |-> IF r.err = "AGENT_OK"
                                             THEN Append(stream.ret.log,
                                                         [key |-> key, value |-> value])
                                             ELSE stream.ret.log,
                                     err |-> r.err]])
    /\ UNCHANGED <<agent_vars, parser>>

NextJson ==
    \/ JsonParse
    \/ JsonRoundTrip
    \/ JsonObject
    \/ ObjectSet

SpecJson == InitJson /\ [][NextJson]_vars


\* ------------------------------------------------------------------------
\* Properties of agent_run
\* ------------------------------------------------------------------------

\* A run has returned and no other has started since.
RunDone == pc = "idle" /\ hist.runs > 0 /\ ~hist.was_reset

\* ... and the host has not touched the permanent transcript since.
RunJustDone == RunDone /\ hist.users = hist.start_users

\* The host never called stop during the run and generate never failed.
Undisturbed == ~hist.stop_any /\ hist.gen_error = AGENT_OK

ToolNames == {"test_tool", "error_tool"}

Occurrences(s, needle) ==
    Cardinality({p \in 0..(Len(s) - Len(needle)) : Sub(s, p, Len(needle)) = needle})

\* Well-formed tool calls written in a response, counted on its text.
WellFormedCalls(s) ==
    Cardinality({p \in 0..Len(s) :
        \E n \in ToolNames :
            /\ p + Len(ToolCallBlock(n)) <= Len(s)
            /\ Sub(s, p, Len(ToolCallBlock(n))) = ToolCallBlock(n)})

ExactlyOneCall(s) ==
    WellFormedCalls(s) = 1 /\ Occurrences(s, TAG_TOOL_CALL_OPEN) = 1

RECURSIVE SumCalls(_)
SumCalls(rs) == IF rs = <<>> THEN 0 ELSE WellFormedCalls(Head(rs)) + SumCalls(Tail(rs))

EveryResponseOneCall ==
    \A i \in DOMAIN hist.responses : ExactlyOneCall(hist.responses[i])

\* C1: when the host never stops the run, generate never fails and every
\* response of the generator holds exactly one well-formed tool call, the run
\* ends after max_iterations iterations: generate was invoked max_iterations
\* times, execute_tool max_iterations times, the error is max_iterations and
\* result.iterations is max_iterations.
C1_OneCallPerTurnRunsToTheCap ==
    (RunDone /\ Undisturbed /\ EveryResponseOneCall)
        => /\ result.error = AGENT_ERROR_MAX_ITERATIONS
           /\ result.iterations = config.max_iterations
           /\ hist.gen_calls = config.max_iterations
           /\ hist.exec_calls = config.max_iterations

C1_Witness ==
    /\ RunDone /\ Undisturbed /\ EveryResponseOneCall
    /\ config.max_iterations >= 2
    /\ Len(hist.responses) = config.max_iterations
    /\ result.error = AGENT_ERROR_MAX_ITERATIONS
    /\ hist.exec_calls = config.max_iterations

LastResponse == hist.responses[Len(hist.responses)]

\* C2: generate is only ever running after turns that each held a tool
\* call (the loop never goes on past a turn without one), and when the host
\* never stops the run, generate never fails and the k-th response is the
\* first without a well-formed tool call, the run returns OK with
\* iterations = k after k calls of generate, and tool_calls_count is both the
\* number of execute_tool calls and the number of tool calls written in the
\* first k-1 responses.
C2_StopsAtFirstTurnWithoutCall ==
    /\ (pc = "generate" /\ tokens = <<>>)
        => \A i \in DOMAIN hist.responses : WellFormedCalls(hist.responses[i]) >= 1
    /\ (RunDone /\ Undisturbed /\ Len(hist.responses) >= 1
            /\ WellFormedCalls(LastResponse) = 0)
        => /\ result.error = AGENT_OK
           /\ result.iterations = Len(hist.responses)
           /\ hist.gen_calls = Len(hist.responses)
           /\ result.tool_calls_count = hist.exec_calls
           /\ result.tool_calls_count = SumCalls(hist.responses)

C2_Witness ==
    /\ RunDone /\ Undisturbed
    /\ Len(hist.responses) = 2
    /\ WellFormedCalls(hist.responses[1]) = 2
    /\ WellFormedCalls(hist.responses[2]) = 0
    /\ result.error = AGENT_OK
    /\ result.tool_calls_count = 2

\* C3: a run during which the host called stop while generate or
\* execute_tool was running, and whose generator reported no error, ends
\* with error cancelled.
C3_StopInFlightCancels ==
    (RunDone /\ hist.stop_in_flight /\ hist.gen_error = AGENT_OK)
        => result.error = AGENT_ERROR_CANCELLED


\* Position in the callback log of the last call of generate (0: none).
LastGenerate ==
    LET is == {i \in DOMAIN events : events[i].kind = "generate"}
    IN IF is = {} THEN 0 ELSE CHOOSE i \in is : \A j \in is : j <= i

\* C4: a run in which generate returned an error E ends with error E; after
\* that call of generate the run calls neither execute_tool nor generate
\* again, and the permanent transcript is what it was when the run started.
C4_GeneratorErrorPropagates ==
    (RunJustDone /\ hist.gen_error # AGENT_OK)
        => /\ result.error = hist.gen_error
           /\ \A j \in DOMAIN events :
                 j > LastGenerate => events[j].kind \in {"step", "on_token"}
           /\ messages = hist.before

ToolMessages(history) == SelectSeq(history, LAMBDA m : m.role = "tool")

ExecuteEvents == SelectSeq(events, LAMBDA e : e.kind = "execute_tool")

\* C5: every return of execute_tool, failed or not, leaves one tool message
\* in the working history whose result record carries the executor's
\* is_error; and the outcome of a run that the host never stops and whose
\* generator never fails depends on the tool calls written in the responses
\* only: every one of them is executed, and the run ends with OK exactly
\* when its last response holds no tool call, with max_iterations otherwise.
C5_ToolErrorIsNotFatal ==
    /\ Len(ToolMessages(working_history))
          = Len(ExecuteEvents) - (IF pc = "execute" THEN 1 ELSE 0)
    /\ \A i \in DOMAIN ToolMessages(working_history) :
          LET m == ToolMessages(working_history)[i]
          IN /\ Len(m.tool_results) = 1
             /\ m.tool_results[1].is_error = execute_tool(ExecuteEvents[i].name).is_error
    /\ (RunDone /\ Undisturbed)
        => /\ result.error \in {AGENT_OK, AGENT_ERROR_MAX_ITERATIONS}
           /\ hist.exec_calls = SumCalls(hist.responses)
           /\ result.iterations = Len(hist.responses)
           /\ (result.error = AGENT_OK <=> WellFormedCalls(LastResponse) = 0)

\* A failed tool call was followed by another call of the same turn and by
\* a further iteration.
C5_Witness ==
    /\ RunDone /\ Undisturbed
    /\ hist.tool_errors >= 1
    /\ Len(ExecuteEvents) >= 3
    /\ ExecuteEvents[1].name = "error_tool"
    /\ ToolMessages(working_history)[1].tool_results[1].is_error
    /\ ~ToolMessages(working_history)[2].tool_results[1].is_error
    /\ result.iterations = 2

\* Content of the last assistant message of a history, "" when it has none.
LastAssistantContent(history) ==
    LET is == {i \in DOMAIN history : history[i].role = "assistant"}
    IN IF is = {} THEN ""
       ELSE history[CHOOSE i \in is : \A j \in is : j <= i].content

\* C6: a run that ends with error max_iterations returns as response the
\* content of the last assistant message of the working history (empty when
\* there is none) and as tool_calls_count the number of execute_tool calls.
C6_CappedRunResult ==
    (RunDone /\ result.error = AGENT_ERROR_MAX_ITERATIONS)
        => /\ result.response = LastAssistantContent(working_history)
           /\ result.tool_calls_count = hist.exec_calls
           /\ result.tool_calls_count = Len(result.tool_calls)

C6_Witness ==
    /\ RunDone /\ hist.gen_error = AGENT_OK
    /\ result.error = AGENT_ERROR_MAX_ITERATIONS
    /\ Len(result.response) > 0
    /\ result.tool_calls_count >= 2

\* C7: a run that ends with OK appends exactly one assistant message to the
\* permanent transcript, with result.response as content and the run's tool
\* calls and thinking; a run that ends with cancelled or in which generate
\* failed appends nothing; no tool message and no message of a run still in
\* progress is in the permanent transcript.
C7_PermanentTranscript ==
    /\ (RunJustDone /\ result.error = AGENT_OK)
        => messages = Append(hist.before,
                             Message("assistant", result.response, result.tool_calls,
                                     <<>>, result.thinking))
    /\ (RunJustDone /\ (result.error = AGENT_ERROR_CANCELLED
                          \/ hist.gen_error # AGENT_OK))
        => messages = hist.before
    /\ \A i \in DOMAIN messages : messages[i].role # "tool"
    /\ pc # "idle" => messages = hist.before

TextSegments(segs) == SelectSeq(segs, LAMBDA g : g.type = "text")

RECURSIVE JoinWithSpaces(_)
JoinWithSpaces(ts) ==
    IF ts = <<>> THEN ""
    ELSE IF Len(ts) = 1 THEN ts[1].text
    ELSE ts[1].text \o " " \o JoinWithSpaces(Tail(ts))

\* C8: once the segments of a turn are processed, the text buffer that
\* becomes the assistant message content is the turn's text segments joined
\* by single spaces; and a run whose generator emits the plain text
\* "Hello! How can I help you?" returns iterations = 1, tool_calls_count = 0
\* and exactly that text as response.
C8_TextJoinedBySingleSpaces ==
    /\ (pc = "segments" /\ seg_i > Len(parse_result))
        => text_content = JoinWithSpaces(TextSegments(parse_result))
    /\ (RunDone /\ Undisturbed /\ hist.responses = <<"Hello! How can I help you?">>)
        => /\ result.iterations = 1
           /\ result.tool_calls_count = 0
           /\ result.response = "Hello! How can I help you?"


\* Step reports and calls of execute_tool of the current run, in order.
StepLog == SelectSeq(events, LAMBDA e : e.kind \in {"step", "execute_tool"})

StepReports == SelectSeq(events, LAMBDA e : e.kind = "step")

StepsNamed(step) == SelectSeq(events, LAMBDA e : e.kind = "step" /\ e.step = step)

\* One move of the recognizer of
\*   ( GENERATING THINKING? ( CALLING_TOOL execute_tool WAITING_FOR_RESULT )* )+ NONE
StepMove(q, e) ==
    LET sym == IF e.kind = "execute_tool" THEN "execute_tool" ELSE e.step
        between == {"generating", "thinking", "waiting"}
    IN CASE sym = "GENERATING" /\ q \in between \cup {"start"} -> "generating"
         [] sym = "THINKING" /\ q = "generating" -> "thinking"
         [] sym = "CALLING_TOOL" /\ q \in between /\ e.name \in ToolNames -> "calling"
         [] sym = "execute_tool" /\ q = "calling" -> "executing"
         [] sym = "WAITING_FOR_RESULT" /\ q = "executing" -> "waiting"
         [] sym = "NONE" /\ q \in between -> "end"
         [] OTHER -> "reject"

RECURSIVE StepState(_, _)
StepState(log, n) == IF n = 0 THEN "start" ELSE StepMove(StepState(log, n - 1), log[n])

\* C9: with on_step_change configured, the steps reported by a run are, per
\* iteration, GENERATING, at most one THINKING, then pairs of
\* CALLING_TOOL(tool name) and WAITING_FOR_RESULT with the call of
\* execute_tool for that tool between the two, one pair per executed tool
\* call; a finished run has reported NONE last; current_step is the step
\* reported last.
C9_StepSequence ==
    config.on_step_change
        => With(StepLog, LAMBDA log :
           /\ StepState(log, Len(log)) # "reject"
           /\ \A i \in 1..(Len(log) - 1) :
                 (log[i].kind = "step" /\ log[i].step = "CALLING_TOOL")
                     => log[i + 1].name = log[i].name
           /\ Len(StepsNamed("CALLING_TOOL")) = hist.exec_calls
           /\ pc # "execute" => Len(StepsNamed("WAITING_FOR_RESULT")) = hist.exec_calls
           /\ RunDone => StepState(log, Len(log)) = "end"
           /\ StepReports # <<>> => current_step = StepReports[Len(StepReports)].step)

C9_Witness ==
    /\ config.on_step_change
    /\ RunDone
    /\ Len(StepsNamed("GENERATING")) = 2
    /\ Len(StepsNamed("THINKING")) >= 1
    /\ Len(StepsNamed("CALLING_TOOL")) >= 2
    /\ StepReports[Len(StepReports)].step = "NONE"

\* The response contains <tool_call> with no </tool_call> after it.
SomeOpenerUnclosed(s) ==
    \E p \in 0..(Len(s) - TAG_TOOL_CALL_OPEN_LEN) :
        /\ Sub(s, p, TAG_TOOL_CALL_OPEN_LEN) = TAG_TOOL_CALL_OPEN
        /\ \A q \in (p + TAG_TOOL_CALL_OPEN_LEN)..(Len(s) - TAG_TOOL_CALL_CLOSE_LEN) :
              Sub(s, q, TAG_TOOL_CALL_CLOSE_LEN) # TAG_TOOL_CALL_CLOSE

\* The chunks 1..n of the iteration that arrived while should_stop was not
\* set, concatenated.
RECURSIVE ChunksAccepted(_)
ChunksAccepted(n) ==
    IF n = 0 THEN ""
    ELSE ChunksAccepted(n - 1)
            \o (IF tokens[n].stop_on_entry THEN "" ELSE tokens[n].chunk)

\* on_token calls of the current iteration, and the chunks the log marks as
\* forwarded.
TokensForwarded ==
    LET since == SubSeq(events, LastGenerate + 1, Len(events))
        calls == SelectSeq(since, LAMBDA e : e.kind = "on_token")
    IN [i \in DOMAIN calls |-> calls[i].name]

ChunksMarkedForwarded ==
    LET fw == SelectSeq(tokens, LAMBDA t : t.forwarded)
    IN [i \in DOMAIN fw |-> fw[i].chunk]

\* C10: with on_token and on_step_change configured, within an iteration,
\* of the chunks that arrive while should_stop is not set, every one is
\* appended to the accumulator, and is forwarded to on_token once, in order,
\* as long as the accumulated response has not contained a <tool_call>
\* without a following </tool_call>; from the first chunk after which it
\* does, THINKING is reported once and no chunk is forwarded; the callback
\* returns false exactly when should_stop is set on entry or the forwarded
\* on_token call returned false.
C10_TokenCallback ==
    (pc = "generate" /\ config.on_token /\ config.on_step_change)
        => /\ \A n \in DOMAIN tokens :
                LET present(k) == \E j \in 1..k :
                                     /\ ~tokens[j].stop_on_entry
                                     /\ SomeOpenerUnclosed(ChunksAccepted(j))
                IN /\ tokens[n].acc = ChunksAccepted(n)
                   /\ ~tokens[n].stop_on_entry
                        => /\ tokens[n].forwarded <=> ~present(n)
                           /\ tokens[n].thinking <=> (present(n) /\ ~present(n - 1))
                   /\ ~tokens[n].ret
                        <=> (tokens[n].stop_on_entry
                               \/ (tokens[n].forwarded /\ ~tokens[n].user_ret))
           /\ TokensForwarded = ChunksMarkedForwarded
           /\ current_response = ChunksAccepted(Len(tokens))
           /\ Len(SelectSeq(SubSeq(events, LastGenerate + 1, Len(events)),
                            LAMBDA e : e.kind = "step" /\ e.step = "THINKING"))
                 = Len(SelectSeq(tokens, LAMBDA t : t.thinking))

\* C11: a run entered while a stop requested on the idle agent is pending
\* cancels at once: the generator is never called and the run returns error
\* cancelled. (hist.stop_before: should_stop was set when agent_run was
\* entered; kept until the generator has returned or streamed once.)
C11_StopBeforeRunCancels ==
    hist.stop_before
        => /\ hist.gen_calls = 0
           /\ pc = "idle" => result.error = AGENT_ERROR_CANCELLED

\* C12: right after agent_reset on an idle agent, whatever add-message, stop
\* and run operations came before, both transcripts are empty, the step is
\* NONE, is_processing and should_stop are false, iteration_count is 0, and
\* every field of the agent state equals the one agent_init gives for the
\* same configuration, so that the operations that follow start from the
\* state of a fresh agent.
C12_ResetGivesFreshAgent ==
    hist.just_reset
        => /\ messages = <<>>
           /\ working_history = <<>>
           /\ current_step = "NONE"
           /\ ~is_processing
           /\ ~should_stop
           /\ iteration_count = 0
           /\ current_response = ""
           /\ thinking_content = ""
           /\ parser = agent_streaming_parser_init
           /\ pc = "idle"

\* A reset after a run that left the user's and the assistant's message in
\* the permanent transcript.
C12_Witness ==
    /\ hist.just_reset
    /\ hist.runs > 0
    /\ hist.reset_dropped >= 2
    /\ messages = <<>>

\* ------------------------------------------------------------------------
\* Properties of the streaming parser (SpecStreaming)
\* ------------------------------------------------------------------------
\* The whole response went through a parser that was never reset, chunk by
\* chunk, and was flushed once, at the end.
StreamDone ==
    /\ stream.extra = "none"
    /\ stream.last = "flush"
    /\ stream.pos = Len(stream.input)

\* The callbacks received, as segments.
RECURSIVE StreamSegments(_)
StreamSegments(out) ==
    IF out = <<>> THEN <<>>
    ELSE <<CASE Head(out).kind = "on_text" -> TextSeg(Head(out).text)
             [] Head(out).kind = "on_thinking" -> ThinkingSeg(Head(out).text)
             [] OTHER -> ToolCallSeg(Head(out).name, Head(out).arguments)>>
         \o StreamSegments(Tail(out))

\* C13: feeding the chunks of a response to a fresh streaming parser and
\* then flushing yields, through on_text (payloads concatenated),
\* on_tool_call and on_thinking, the segments agent_parser_parse yields on
\* the whole response.
C13_StreamingMatchesBatch ==
    StreamDone => StreamSegments(stream.out) = agent_parser_parse(stream.input)

\* Number of bytes of the response consumed once byte i of the last feed
\* has been.
ConsumedAt(i) == stream.pos - Len(stream.steps) + i

\* The parser before byte i of the last feed.
ParserBefore(i) == IF i = 1 THEN stream.before ELSE stream.steps[i - 1].parser

\* The n bytes consumed so far end with tag, all of it consumed since from.
EndsWithTag(n, tag, from) ==
    /\ n - Len(tag) >= from
    /\ Sub(stream.input, n - Len(tag), Len(tag)) = tag

\* C14: in_tool_call answers true if and only if the state is TOOL_CALL,
\* after every operation and after every byte of a feed; outside a thinking
\* block it turns true at a byte if and only if that byte completes
\* <tool_call> (split across chunks or not), and it turns false at a byte if
\* and only if that byte completes </tool_call>.
C14_InToolCall ==
    /\ agent_streaming_parser_in_tool_call(parser) <=> parser.state = "TOOL_CALL"
    /\ \A i \in DOMAIN stream.steps :
         LET prev == ParserBefore(i)
             cur == stream.steps[i].parser
         IN /\ agent_streaming_parser_in_tool_call(cur) <=> cur.state = "TOOL_CALL"
            /\ (~prev.in_tool_call /\ prev.state # "THINK")
                  => (cur.in_tool_call
                        <=> EndsWithTag(ConsumedAt(i), TAG_TOOL_CALL_OPEN, stream.mark))
            /\ prev.in_tool_call
                  => (~cur.in_tool_call
                        <=> EndsWithTag(ConsumedAt(i), TAG_TOOL_CALL_CLOSE, 0))

\* C15: when agent_streaming_parser_feed returns, the text buffer is empty.
C15_FeedLeavesNoText ==
    stream.last = "feed" => parser.buffer = ""

\* The response holds none of the opening tags.
TagFree(s) ==
    /\ find_substr(s, TAG_TOOL_CALL_OPEN) < 0
    /\ find_substr(s, TAG_THINK_OPEN) < 0
    /\ find_substr(s, TAG_THINKING_OPEN) < 0

\* C16: a response without opening tags, cut into chunks in any way, fed and
\* flushed, comes out of on_text byte for byte, and nothing comes out of
\* on_tool_call or on_thinking.
C16_TagFreeTextPassesThrough ==
    (StreamDone /\ TagFree(stream.input))
        => stream.out = emit_text(stream.input)

\* ------------------------------------------------------------------------
\* Properties of agent_parser_parse (SpecParse)
\* ------------------------------------------------------------------------
Parsed == stream.last = "parse"

\* The text segment of t, if its trimmed text is not empty.
TextIfAny(t) ==
    IF agent_sv_trim(t) = "" THEN <<>> ELSE <<TextSeg(agent_sv_trim(t))>>

C18_SegmentsNonEmptyAndTrimmed ==
    Parsed
        => \A i \in DOMAIN stream.parsed :
              LET seg == stream.parsed[i]
              IN CASE seg.type = "text" ->
                        Len(seg.text) > 0 /\ agent_sv_trim(seg.text) = seg.text
                   [] seg.type = "thinking" -> Len(seg.text) > 0
                   [] OTHER -> Len(seg.name) > 0

\* C19: for a response P J S without tags, J an object with a string "name"
\* and an "arguments" field, P and S plain text without the literal "name",
\* the segments are text(trim P) if not empty, tool_call(name, arguments),
\* text(trim S) if not empty.
C19_BareJsonBetweenText ==
    Parsed
        => \A p \in PlainPrefixes, j \in BareCalls, s \in PlainSuffixes :
              stream.input = p \o j.text \o s
                 => stream.parsed = TextIfAny(p)
                                       \o <<ToolCallSeg(j.name, j.arguments)>>
                                       \o TextIfAny(s)

\* C20: in a response without tags, a bare JSON tool-call object yields its
\* tool_call segment wherever it stands, also after an earlier occurrence of
\* the literal "name".
C20_BareJsonFoundAnywhere ==
    Parsed
        => \A p \in PlainPrefixes \cup NamedPrefixes, j \in BareCalls,
              s \in PlainSuffixes :
              stream.input = p \o j.text \o s
                 => \E i \in DOMAIN stream.parsed :
                       stream.parsed[i] = ToolCallSeg(j.name, j.arguments)

\* The bare JSON call found in the response, and where its object starts.
BareFound == Parsed /\ stream.bare # NULL
BareStart == Len(stream.bare.before)

\* C21 as stated: a bare JSON tool call is accepted only when nothing but
\* whitespace lies between the start of the buffer and its opening brace.
C21_OnlyWhitespaceBeforeBrace ==
    BareFound => agent_sv_trim(stream.bare.before) = ""

\* C21, amended: a bare JSON tool call is accepted only when its object
\* starts with a brace followed by nothing but spaces, tabs and line ends up
\* to the first "name" of the buffer; what precedes the brace is free.
C21_OnlyWhitespaceBeforeName ==
    BareFound
        => LET found == find_substr(stream.input, "\"name\"")
           IN /\ BareStart < found
              /\ At(stream.input, BareStart) = "{"
              /\ \A i \in (BareStart + 1)..(found - 1) :
                    At(stream.input, i) \in {" ", "\t", "\n", "\r"}

\* A call accepted after text, with a space between its brace and "name".
C21_Witness ==
    /\ BareFound
    /\ agent_sv_trim(stream.bare.before) # ""
    /\ BareStart + 1 < find_substr(stream.input, "\"name\"")

\* C22: a response "<think>X</think>Y" (or with <thinking>) yields
\* [thinking(trim X), text(trim Y)]; a response "X</think>Y" without an
\* opening tag yields the same two segments; a text without a complete
\* thinking block stays one text segment and yields no thinking segment.
C22_ThinkingSplitFromText ==
    Parsed
        => /\ \A f \in ThinkingParts.frames, x \in ThinkingParts.X, y \in ThinkingParts.Y :
                 (\/ stream.input = f.open \o x \o f.close \o y
                  \/ stream.input = x \o f.close \o y)
                    => stream.parsed = <<ThinkingSeg(agent_sv_trim(x)),
                                         TextSeg(agent_sv_trim(y))>>
           /\ \A u \in ThinkingParts.unframed :
                 stream.input = u => stream.parsed = TextIfAny(u)

\* The offset in the response of the first source byte of a segment: where
\* its tool name, or the first word of its text, stands.
SegStart(seg) ==
    find_substr(stream.input,
                IF seg.type = "tool_call" THEN "\"" \o seg.name \o "\""
                ELSE Sub(seg.text, 0, 2))

\* C23: the segments agent_parser_parse returns are in buffer order: of two
\* segments, the one whose first source byte comes earlier in the response
\* stands earlier in the list.
C23_SegmentsInBufferOrder ==
    (Parsed /\ stream.input \in OrderInputs)
        => \A i, j \in DOMAIN stream.parsed :
              (/\ i < j
               /\ stream.parsed[i].type = "tool_call" \/ Len(stream.parsed[i].text) > 0
               /\ stream.parsed[j].type = "tool_call" \/ Len(stream.parsed[j].text) > 0)
                 => /\ SegStart(stream.parsed[i]) >= 0
                    /\ SegStart(stream.parsed[i]) < SegStart(stream.parsed[j])

\* ------------------------------------------------------------------------
\* Properties of the UTF-8 utilities (SpecBytes)
\* ------------------------------------------------------------------------
\* Offsets of s that do not fall inside a well-formed multi-byte sequence
\* of s: 0, and every offset the validating scan reaches.
RECURSIVE ScalarBoundaries(_, _)
ScalarBoundaries(s, p) ==
    IF p >= Len(s) THEN {p}
    ELSE {p} \cup ScalarBoundaries(s, p + (IF agent_utf8_char_length(At(s, p)) = 0
                                           THEN 1
                                           ELSE agent_utf8_char_length(At(s, p))))

\* C24: agent_truncate_text returns the text unchanged when its length is
\* <= max_len, and otherwise a string of length <= max_len that ends with
\* "..." and whose part before the marker is a prefix of the text cut on a
\* complete UTF-8 scalar boundary; this for every max_len from 0 on.
C24_TruncateWithinMaxLen ==
    stream.last = "truncate"
        => /\ stream.ret.status = "ok"
           /\ IF Len(stream.input) <= stream.arg
              THEN stream.ret.text = stream.input
              ELSE /\ stream.ret.size <= stream.arg
                   /\ stream.ret.size >= 3
                   /\ From(stream.ret.text, stream.ret.size - 3) = "..."
                   /\ Sub(stream.ret.text, 0, stream.ret.size - 3)
                         = Sub(stream.input, 0, stream.ret.size - 3)
                   /\ (stream.ret.size - 3) \in ScalarBoundaries(stream.input, 0)

\* C25 as stated: for every byte sequence s and every k <= len(s),
\* agent_utf8_complete_boundary(s, k) = b with b <= k, and s[0..b] is empty
\* or valid UTF-8.
C25_BoundaryPrefixValid ==
    stream.last = "boundary"
        => /\ stream.ret.size <= stream.arg
           /\ \/ stream.ret.size = 0
              \/ agent_utf8_validate(Sub(stream.input, 0, stream.ret.size))

\* C25, amended: b <= k for every byte sequence; s[0..b] is empty or valid
\* UTF-8 when s is valid UTF-8.
C25_BoundaryPrefixValidOfValid ==
    stream.last = "boundary"
        => /\ stream.ret.size <= stream.arg
           /\ agent_utf8_validate(stream.input)
                 => \/ stream.ret.size = 0
                    \/ agent_utf8_validate(Sub(stream.input, 0, stream.ret.size))

\* A valid buffer cut inside a multi-byte sequence: the boundary lies below
\* k and the prefix up to it is not empty.
C25_Witness ==
    /\ stream.last = "boundary"
    /\ agent_utf8_validate(stream.input)
    /\ 0 < stream.ret.size
    /\ stream.ret.size < stream.arg

\* ------------------------------------------------------------------------
\* Properties of the arena (SpecArena)
\* ------------------------------------------------------------------------
\* The end of the byte range of an allocation; a size near SIZE_MAX reaches
\* past every offset.
RangeEnd(a) == IF a.size < 0 THEN 1073741824 ELSE a.off + a.size

Overlap(a, b) ==
    /\ a.block = b.block
    /\ a.off < RangeEnd(b)
    /\ b.off < RangeEnd(a)

\* C26: after any sequence of alloc, calloc, strndup, savepoint and restore
\* the arena is intact and the byte ranges of all allocations issued so far
\* are pairwise disjoint.
C26_IssuedRangesDisjoint ==
    stream.ctx # NULL
        => /\ stream.ctx.status = "ok"
           /\ \A a, b \in stream.ret.issued : a # b => ~Overlap(a, b)

\* C27: sp = savepoint(), then allocations none of which leaves the current
\* block, then restore(sp): the used offset of the current block is sp,
\* whether that block is the first one or a later one.
C27_RestoreReturnsToSavepoint ==
    (stream.ctx # NULL /\ stream.last = "restore" /\ stream.ret.plain)
        => stream.ctx.blocks[stream.ctx.current_block].used = stream.ret.sp

SetLog == stream.ret.log

LogKeys == {SetLog[i].key : i \in 1..Len(SetLog)}

FirstSet(k) ==
    CHOOSE i \in 1..Len(SetLog) :
        SetLog[i].key = k /\ \A j \in 1..(i - 1) : SetLog[j].key # k

LastSet(k) ==
    CHOOSE i \in 1..Len(SetLog) :
        SetLog[i].key = k /\ \A j \in (i + 1)..Len(SetLog) : SetLog[j].key # k

\* C28: after any sequence of agent_json_object_set calls on an object, its
\* keys are pairwise distinct and stand in the order of their first
\* insertion, its count is the number of distinct keys set, and
\* agent_json_object_get(k) is the value most recently set for k (NULL for
\* a key never set).
C28_ObjectKeysDistinctInOrder ==
    stream.last = "set" =>
        LET entries == stream.ret.value.entries IN
        /\ \A i, j \in 1..Len(entries) : i # j => entries[i].key # entries[j].key
        /\ {entries[i].key : i \in 1..Len(entries)} = LogKeys
        /\ \A i, j \in 1..Len(entries) :
              i < j => FirstSet(entries[i].key) < FirstSet(entries[j].key)
        /\ Len(entries) = Cardinality(LogKeys)
        /\ \A k \in SetKeys :
              agent_json_object_get(stream.ret.value, k) =
                  IF k \in LogKeys THEN SetLog[LastSet(k)].value ELSE NULL

\* A key set twice with different values, after another key was set.
C28_Witness ==
    /\ stream.last = "set"
    /\ Cardinality(LogKeys) >= 2
    /\ Len(stream.ret.value.entries) < Len(SetLog)
    /\ \E i, j \in 1..Len(SetLog) :
          i < j /\ SetLog[i].key = SetLog[j].key /\ SetLog[i].value # SetLog[j].value

\* C29: for every value v produced by agent_json_parse (null, booleans,
\* integers, strings with control characters and escapes, arrays, objects),
\* agent_json_parse of the serialisation of v succeeds and yields a value
\* equal to v.
C29_ParseOfSerializeIsIdentity ==
    stream.last = "roundtrip" =>
        /\ ~stream.ret.back.error
        /\ stream.ret.back.value = stream.parsed.value

\* A string with control characters, written with \u escapes, went round.
C29_Witness ==
    /\ stream.last = "roundtrip"
    /\ stream.parsed.value.type = "string"
    /\ find_substr(stream.ret.text, "\\u001f") >= 0
    /\ find_substr(stream.ret.text, "\\u0000") >= 0
    /\ stream.ret.back.value = stream.parsed.value

\* The names of the tool-call segments of a response, in segment order.
ToolCallNames(response) ==
    With(SelectSeq(agent_parser_parse(response), LAMBDA seg : seg.type = "tool_call"),
         LAMBDA calls : [j \in 1..Len(calls) |-> calls[j].name])

\* The generate and execute_tool invocations of the run so far, in order.
Invocations ==
    With(SelectSeq(events, LAMBDA e : e.kind \in {"generate", "execute_tool"}),
         LAMBDA es : [j \in 1..Len(es) |-> <<es[j].kind, es[j].name>>])

\* The tool-call names of the responses k.., one sequence per response.
RECURSIVE ToolCallNamesOf(_, _)
ToolCallNamesOf(responses, k) ==
    IF k > Len(responses) THEN <<>>
    ELSE <<ToolCallNames(responses[k])>> \o ToolCallNamesOf(responses, k + 1)

\* What the iterations k.. of the run have to invoke: generate, then
\* execute_tool for each tool-call segment of the response in order.
RECURSIVE InvocationsOf(_, _)
InvocationsOf(names, k) ==
    IF k > Len(names) THEN <<>>
    ELSE <<(<<"generate", "">>)>>
            \o [j \in 1..Len(names[k]) |-> <<"execute_tool", names[k][j]>>]
            \o InvocationsOf(names, k + 1)

ToolMessageOf(msg, name) ==
    /\ msg.role = "tool"
    /\ Len(msg.tool_results) = 1
    /\ msg.tool_results[1].is_error = execute_tool(name).is_error
    /\ msg.tool_results[1].content = msg.content

\* history[pos..] is made of the messages of the iterations k..: for each
\* one a tool message per tool-call segment of its response in order, then
\* its assistant message if it has one.
RECURSIVE IterationMessages(_, _, _, _)
IterationMessages(history, pos, names, k) ==
    IF k > Len(names) THEN pos = Len(history) + 1
    ELSE With(pos + Len(names[k]), LAMBDA after :
            /\ after - 1 <= Len(history)
            /\ \A j \in 1..Len(names[k]) : ToolMessageOf(history[pos + j - 1], names[k][j])
            /\ IterationMessages(history,
                                 IF after <= Len(history) /\ history[after].role = "assistant"
                                 THEN after + 1 ELSE after,
                                 names, k + 1))

\* C30: within a turn execute_tool is invoked once per tool-call segment of
\* the response, in response order, and all of them before the next
\* generate; the message list generate is given is the permanent transcript
\* followed by the messages of the iterations completed so far, each with
\* one tool message per executed call in execution order ahead of the
\* iteration's assistant message.  Stated where an iteration has ended and
\* where generate has just been called.
C30_ToolsInOrderThenNextGenerate ==
    (is_processing /\ (pc = "loop" \/ (pc = "generate" /\ tokens = <<>>))) =>
        With(ToolCallNamesOf(hist.responses, 1), LAMBDA names :
            /\ Invocations = InvocationsOf(names, 1)
                                \o (IF pc = "generate" THEN <<(<<"generate", "">>)>> ELSE <<>>)
            /\ Len(working_history) >= Len(messages)
            /\ SubSeq(working_history, 1, Len(messages)) = messages
            /\ IterationMessages(working_history, Len(messages) + 1, names, 1))

\* The second generate of a run is under way, after a response with two
\* tool calls and no text; the transcript holds a message.
C30_Witness ==
    /\ is_processing
    /\ pc = "generate"
    /\ tokens = <<>>
    /\ Len(messages) >= 1
    /\ Len(hist.responses) = 1
    /\ ToolCallNames(hist.responses[1]) = <<"error_tool", "test_tool">>
    /\ Len(working_history) = Len(messages) + 2

\* The messages the current run has put on the working history.
RunMessages == SubSeq(working_history, Len(messages) + 1, Len(working_history))

\* C31: every iteration that completes without error pushes exactly one
\* assistant message onto the working history, with the turn's text and the
\* accumulated thinking, whether or not the turn had tool calls and whether
\* or not its text is empty.
C31_OneAssistantMessagePerIteration ==
    (is_processing /\ pc = "loop") =>
        /\ Len(SelectSeq(RunMessages, LAMBDA m : m.role = "assistant"))
              = Len(hist.responses)
        /\ Len(hist.responses) >= 1 =>
              /\ working_history[Len(working_history)].role = "assistant"
              /\ working_history[Len(working_history)].thinking_content = thinking_content

\* C32: once agent_stop, called by a concurrent caller, has set should_stop
\* while iteration k of a run is in progress, iteration k+1 never starts:
\* generate is not invoked again and no tool call of a later turn runs.
C32_NoIterationAfterStop ==
    (pc # "idle" /\ stream.extra # "none" /\ stream.mark > 0)
        => iteration_count = stream.mark

\* The same for a stop whose store the run's thread sees at once, as it does
\* when agent_stop is called on the run's own thread from inside a callback.
C32_NoIterationAfterStopSeenAtOnce ==
    (pc # "idle" /\ stream.extra = "seen at once" /\ stream.mark > 0)
        => iteration_count = stream.mark

\* C33: across any sequence of runs on one agent, a non-empty
\* result.response is the content of an assistant message that an iteration
\* of that same run pushed, never one copied from the permanent transcript
\* of an earlier run; so no earlier answer enters the permanent transcript a
\* second time.
C33_ResponseComesFromThisRun ==
    (RunDone /\ Len(result.response) > 0) =>
        /\ \E i \in (Len(hist.before) + 1)..Len(working_history) :
              /\ working_history[i].role = "assistant"
              /\ working_history[i].content = result.response
        /\ Len(SelectSeq(messages, LAMBDA m : m.role = "assistant")) <= hist.runs

\* C34: is_processing is true for the whole of a run: every callback the
\* run invokes (generate, the token callback, get_tools_schema, on_tool_call,
\* execute_tool and every on_step_change report, the final report of NONE
\* included) observes is_processing true; once agent_run has returned,
\* is_processing is false.
C34_ProcessingDuringRun ==
    /\ \A i \in DOMAIN events : events[i].processing
    /\ pc # "idle" => is_processing
    /\ pc = "idle" => ~is_processing

\* C35: agent_run invoked while is_processing is true, from inside a callback
\* of a run on the same state, returns invalid_argument at once with
\* iterations 0 and changes nothing: both transcripts, iteration_count,
\* should_stop, the step, is_processing and every other field of the agent
\* stay as they were and no callback is invoked, so the outer run goes on
\* from the state it had.
C35_InnerRunRejected ==
    [][(stream.last = "init" /\ stream'.last = "inner run")
        => /\ is_processing
           /\ stream'.ret.error = AGENT_ERROR_INVALID_ARGUMENT
           /\ stream'.ret.iterations = 0
           /\ UNCHANGED agent_vars]_vars

\* The outer run has ended with OK after an inner call made while a tool was
\* executing.
C35_Witness ==
    /\ stream.last = "inner run"
    /\ stream.ret.error = AGENT_ERROR_INVALID_ARGUMENT
    /\ RunDone
    /\ result.error = AGENT_OK
    /\ result.tool_calls_count >= 1

RECURSIVE Concat(_)
Concat(chunks) == IF chunks = <<>> THEN "" ELSE Head(chunks) \o Concat(Tail(chunks))

\* The response of the iteration under way: what has arrived and what the
\* generator has still to stream.
WholeResponse == current_response \o Concat(gen.script)

\* Byte p of the response lies in a tool-call region: at or after the start
\* of an opening tag and before the end of the closing tag that follows it.
InToolCallRegion(response, p) ==
    \E o \in 0..p :
        /\ o + TAG_TOOL_CALL_OPEN_LEN <= Len(response)
        /\ Sub(response, o, TAG_TOOL_CALL_OPEN_LEN) = TAG_TOOL_CALL_OPEN
        /\ ~\E c \in o..(p - TAG_TOOL_CALL_CLOSE_LEN) :
              Sub(response, c, TAG_TOOL_CALL_CLOSE_LEN) = TAG_TOOL_CALL_CLOSE

\* C36: for any split of a response into chunks, no byte of a tool-call
\* region (opening tag, enclosed JSON, closing tag) is passed to the user's
\* on_token, also when the opening tag is split across two chunks.
C36_NoToolCallByteForwarded ==
    (pc = "generate" /\ ~hist.stop_any) =>
        \A n \in DOMAIN tokens :
            tokens[n].forwarded =>
                \A p \in (Len(tokens[n].acc) - Len(tokens[n].chunk))
                            ..(Len(tokens[n].acc) - 1) :
                    ~InToolCallRegion(WholeResponse, p)

\* C37 (as stated): a <tool_call> block yields a tool_call segment only if
\* the enclosed bytes parse as a JSON object with a string "name" and an
\* "arguments" member; every other block yields none, and the scan goes on
\* after the closing tag, so that what follows the block is parsed as usual.
C37_ToolCallNeedsNameAndArguments ==
    stream.last = "parse" =>
        \A b \in TagBodies, f \in TagFollowers :
            stream.input = TaggedInput(b, f) =>
                stream.parsed = (IF b.lacks = "nothing" THEN <<b.call>> ELSE <<>>) \o f.segs

\* C37 (amended): a <tool_call> block yields a tool_call segment exactly when
\* the enclosed bytes parse as a JSON object with a string "name"; a block
\* without "arguments" yields a segment whose arguments are the empty object;
\* invalid JSON, a value that is no object and a missing or non-string "name"
\* yield no segment; in each case the scan goes on after the closing tag.
C37_ToolCallNeedsStringName ==
    stream.last = "parse" =>
        \A b \in TagBodies, f \in TagFollowers :
            stream.input = TaggedInput(b, f) =>
                stream.parsed = (IF b.call # NULL THEN <<b.call>> ELSE <<>>) \o f.segs

C37_Witness ==
    /\ stream.last = "parse"
    /\ \E b \in TagBodies, f \in TagFollowers :
          /\ b.json = "{invalid}"
          /\ f.segs = <<ToolCallSeg("t2", agent_json_object)>>
          /\ stream.input = TaggedInput(b, f)
          /\ stream.parsed = f.segs

\* C38: after any sequence of feed, flush and reset on a streaming parser, a
\* parser in TAG_OPEN holds a tag candidate that is non-empty, begins with
\* '<' and has at most 15 bytes; in every other state the tag buffer is
\* empty; and the state TAG_CLOSE is never entered.
C38_TagBufferFollowsState ==
    /\ parser.state = "TAG_OPEN" =>
          /\ Len(parser.tag_buffer) > 0
          /\ At(parser.tag_buffer, 0) = "<"
          /\ Len(parser.tag_buffer) <= MAX_TAG_CANDIDATE
    /\ parser.state # "TAG_OPEN" => parser.tag_buffer = ""
    /\ parser.state # "TAG_CLOSE"

\* C39: a JSON string with a backslash-u escape that is not followed by four
\* hexadecimal digits parses without error, and the parsed string holds the
\* source bytes of the escape as they stand, the backslash included.
C39_MalformedEscapeCopiedVerbatim ==
    stream.last = "parse" =>
        \A m \in MalformedEscapes :
            stream.input = EscapeDoc(m) =>
                /\ ~stream.parsed.error
                /\ stream.parsed.value = agent_json_string_n(m.pre \o m.esc \o m.post)

\* The sum over the live blocks of header size plus data size.
RECURSIVE LiveBytes(_, _)
LiveBytes(blocks, i) ==
    IF i > Len(blocks) THEN 0
    ELSE SIZEOF_ARENA_BLOCK + blocks[i].size + LiveBytes(blocks, i + 1)

\* C40: after any sequence of create(initial_size), alloc and reset, for an
\* initial_size of any size, the capacity of the arena is the sum over its
\* live blocks of header size plus data size, it has not wrapped below zero,
\* after a reset it is what it was right after create, and no block has
\* used beyond its size.
C40_CapacityIsLiveBytes ==
    stream.ctx.status = "ok" =>
        /\ agent_context_capacity(stream.ctx) = LiveBytes(stream.ctx.blocks, 1)
        /\ agent_context_capacity(stream.ctx) >= 0
        /\ stream.last = "reset" => agent_context_capacity(stream.ctx) = stream.mark
        /\ \A i \in DOMAIN stream.ctx.blocks :
              ~size_gt(stream.ctx.blocks[i].used, stream.ctx.blocks[i].size)

====
